---- MODULE Spec2Model ----
(***************************************************************************)
(* Model of the file-explorer process                                      *)
(* (src/example-apps/file-explorer/explorer/src/lib.rs) and of the          *)
(* parameters of the jendrix-tune process (src/jendrix-tune/src/lib.rs).    *)
(*                                                                         *)
(* Strings are sequences of one-character strings, so that split,          *)
(* strip_prefix and hex formatting are computed and not assumed.           *)
(* The VFS of the node is an external collaborator: it is modelled as a     *)
(* map from paths to nodes.  A backend call that fails (an error answer or  *)
(* a time-out of the request) is modelled as a call the backend did not     *)
(* perform.                                                                *)
(***************************************************************************)
EXTENDS Integers, Sequences, FiniteSets, TLC

\* store: the VFS; shared_files, cwd: the fields of FileExplorerState;
\* ret: the call being answered; issued: for every path whose last
\* share_file or unshare_file call was a share_file, the link that call
\* returned (<<>> for the others); revoked: the paths whose last share_file
\* or unshare_file call was an unshare_file;
\* app_state: the AppState of the jendrix-tune process; saved_state: the
\* AppState the runtime has saved for it; jret: the jendrix-tune call being
\* answered
\* tasks: the calls of the file-explorer process that are followed step by
\* step; running: the task the executor is polling, 0 when it waits for the
\* next message;
\* sigs: the signatures the network signer has made; sret: the call of the
\* sign process being answered
VARIABLES store, shared_files, cwd, ret, issued, revoked,
          app_state, saved_state, jret, tasks, running, sigs, sret

vars == <<store, shared_files, cwd, ret, issued, revoked,
          app_state, saved_state, jret, tasks, running, sigs, sret>>

\* the variables of the file-explorer process, of the jendrix-tune process,
\* of the executor of the file-explorer process and of the sign process
explorer == <<store, shared_files, cwd, ret, issued, revoked>>
jendrix == <<app_state, saved_state, jret>>
overlap == <<tasks, running>>
signer == <<sigs, sret>>

(***************************************************************************)
(* Bounds of the model.                                                    *)
(***************************************************************************)
\* longest file content
MaxLen == 1
\* byte values of file contents are 1..MaxByte
MaxByte == 1
\* bytes of a digest (the md5 digest has 16)
DigestLen == 1
\* most backend calls that fail during one listing
MaxFail == 2

(***************************************************************************)
(* Strings.                                                                *)
(***************************************************************************)
PROCESS_ID_LINK ==
  <<"e","x","p","l","o","r","e","r",":","f","i","l","e","-",
    "e","x","p","l","o","r","e","r",":","s","y","s">>

SharedPrefix == <<"/","s","h","a","r","e","d","/">>

Root == <<>>
PathAB == <<"/","a","b">>
PathBA == <<"/","b","a">>
PathABA == <<"/","a","b","/","a">>
PathABB == <<"/","a","b","/","b">>
PathABAB == <<"/","a","b","/","a","/","b">>

\* the paths the store of the model can hold a node at
Nodes == {PathAB, PathBA, PathABA, PathABB, PathABAB}

\* the paths the file and share requests are made with
PathInputs == {PathAB, PathBA, PathABA}

\* shared paths whose file names differ in their extension: an extension of
\* the table, a name without extension that spells one, a name without
\* extension, an extension that is not in the table
PathATxt == <<"/","a",".","t","x","t">>
PathTxt == <<"/","t","x","t">>
PathA == <<"/","a">>
PathADotB == <<"/","a",".","b">>
ExtPaths == {PathATxt, PathTxt, PathA, PathADotB}

\* the file contents requests are made with
Contents == UNION {[1..n -> 1..MaxByte] : n \in 0..MaxLen}

AuthScheme == {"Public", "Private"}

\* index of the last occurrence of c in s, 0 when there is none
RECURSIVE LastIndexOf(_, _)
LastIndexOf(s, c) ==
  IF s = <<>> THEN 0
  ELSE IF s[Len(s)] = c THEN Len(s)
  ELSE LastIndexOf(SubSeq(s, 1, Len(s) - 1), c)

\* s.split(c).last(): what follows the last c, all of s when there is no c
SplitLast(s, c) == SubSeq(s, LastIndexOf(s, c) + 1, Len(s))

\* the directory a path lies in (Root for a top-level path)
ParentOf(p) ==
  IF LastIndexOf(p, "/") = 0 THEN Root
  ELSE SubSeq(p, 1, LastIndexOf(p, "/") - 1)

IsPrefix(pre, s) == Len(s) >= Len(pre) /\ SubSeq(s, 1, Len(pre)) = pre

\* mutant of StripPrefix: cuts the length of the prefix off without
\* comparing it
StripPrefix_ByLength(s, pre) ==
  IF Len(s) >= Len(pre)
  THEN [some |-> TRUE, v |-> SubSeq(s, Len(pre) + 1, Len(s))]
  ELSE [some |-> FALSE, v |-> <<>>]

\* str::strip_prefix, as an Option
StripPrefix(s, pre) ==
  IF IsPrefix(pre, s)
  THEN [some |-> TRUE, v |-> SubSeq(s, Len(pre) + 1, Len(s))]
  ELSE [some |-> FALSE, v |-> <<>>]

(***************************************************************************)
(* The share id: format!("{:x}", md5::compute(path)).                      *)
(* The digest is a fixed-width function of the bytes of the path.  MD5 is   *)
(* abstracted by a byte-wise checksum of DigestLen bytes: like MD5 it is    *)
(* deterministic, depends on the path only and maps an unbounded set of     *)
(* paths to a bounded set of digests, so distinct paths can collide.       *)
(***************************************************************************)
ByteOf(c) ==
  CASE c = "/" -> 47
    [] c = "." -> 46
    [] c = "a" -> 97
    [] c = "b" -> 98
    [] OTHER -> 63

RECURSIVE SumBytes(_)
SumBytes(s) == IF s = <<>> THEN 0 ELSE ByteOf(Head(s)) + SumBytes(Tail(s))

Md5Compute(path) == [i \in 1..DigestLen |-> (i * SumBytes(path)) % 256]

HexDigit(n) ==
  <<"0","1","2","3","4","5","6","7","8","9","a","b","c","d","e","f">>[n + 1]

\* LowerHex of a digest: two digits for every byte
RECURSIVE LowerHex(_)
LowerHex(d) ==
  IF d = <<>> THEN <<>>
  ELSE <<HexDigit(Head(d) \div 16), HexDigit(Head(d) % 16)>> \o LowerHex(Tail(d))

derive_share_id(path) == LowerHex(Md5Compute(path))

ShareLink(path) == <<"/">> \o PROCESS_ID_LINK \o SharedPrefix \o derive_share_id(path)

(***************************************************************************)
(* The store (VFS).                                                        *)
(***************************************************************************)
NoNode == [kind |-> "none", data |-> <<>>]
DirNode == [kind |-> "dir", data |-> <<>>]
FileNode(bytes) == [kind |-> "file", data |-> bytes]

KindOf(st, p) == IF p = Root THEN "dir" ELSE IF p \in DOMAIN st THEN st[p].kind ELSE "none"

IsDescendant(q, p) == Len(q) > Len(p) /\ SubSeq(q, 1, Len(p) + 1) = p \o <<"/">>

\* The backend calls of one handler run: t counts down to the call that
\* times out (the call made with t = 1 times out, t = 0 injects no
\* time-out), n counts the calls issued.
Backend(t) == [t |-> t, n |-> 0]
TimesOut(b) == b.t = 1
Tick(b) == [t |-> IF b.t > 0 THEN b.t - 1 ELSE 0, n |-> b.n + 1]

VfsOk(st, b) ==
  [ok |-> TRUE, cause |-> "", store |-> st, data |-> <<>>, len |-> 0, b |-> Tick(b)]
VfsErr(st, b, cause) ==
  [ok |-> FALSE, cause |-> cause, store |-> st, data |-> <<>>, len |-> 0, b |-> Tick(b)]

\* VfsAction::CreateFile: creates the file, truncating an existing one
VfsCreateFile(st, p, b) ==
  IF TimesOut(b) THEN VfsErr(st, b, "Timeout")
  ELSE IF KindOf(st, ParentOf(p)) # "dir" THEN VfsErr(st, b, "NotFound")
  ELSE IF KindOf(st, p) = "dir" THEN VfsErr(st, b, "IsDirectory")
  ELSE VfsOk([st EXCEPT ![p] = FileNode(<<>>)], b)

\* VfsAction::OpenFile { create: false }
VfsOpenFile(st, p, b) ==
  IF TimesOut(b) THEN VfsErr(st, b, "Timeout")
  ELSE IF KindOf(st, p) = "none" THEN VfsErr(st, b, "NotFound")
  ELSE IF KindOf(st, p) = "dir" THEN VfsErr(st, b, "IsDirectory")
  ELSE VfsOk(st, b)

\* File::write, VfsAction::Write: the slice becomes the whole file
VfsWrite(st, p, bytes, b) ==
  IF TimesOut(b) THEN VfsErr(st, b, "Timeout")
  ELSE IF KindOf(st, ParentOf(p)) # "dir" THEN VfsErr(st, b, "NotFound")
  ELSE IF KindOf(st, p) = "dir" THEN VfsErr(st, b, "IsDirectory")
  ELSE VfsOk([st EXCEPT ![p] = FileNode(bytes)], b)

\* File::read, VfsAction::Read: the whole file
VfsRead(st, p, b) ==
  IF TimesOut(b) THEN VfsErr(st, b, "Timeout")
  ELSE IF KindOf(st, p) = "none" THEN VfsErr(st, b, "NotFound")
  ELSE IF KindOf(st, p) = "dir" THEN VfsErr(st, b, "IsDirectory")
  ELSE [VfsOk(st, b) EXCEPT !.data = st[p].data]

\* File::metadata, VfsAction::Metadata
VfsMetadata(st, p, b) ==
  IF TimesOut(b) THEN VfsErr(st, b, "Timeout")
  ELSE IF KindOf(st, p) = "none" THEN VfsErr(st, b, "NotFound")
  ELSE [VfsOk(st, b) EXCEPT !.len = Len(st[p].data)]

\* VfsAction::RemoveFile
VfsRemoveFile(st, p, b) ==
  IF TimesOut(b) THEN VfsErr(st, b, "Timeout")
  ELSE IF KindOf(st, p) = "none" THEN VfsErr(st, b, "NotFound")
  ELSE IF KindOf(st, p) = "dir" THEN VfsErr(st, b, "IsDirectory")
  ELSE VfsOk([st EXCEPT ![p] = NoNode], b)

\* vfs::open_dir(path, create = true)
VfsOpenDir(st, p, b) ==
  IF TimesOut(b) THEN VfsErr(st, b, "Timeout")
  ELSE IF KindOf(st, ParentOf(p)) # "dir" THEN VfsErr(st, b, "NotFound")
  ELSE IF KindOf(st, p) = "file" THEN VfsErr(st, b, "NotADirectory")
  ELSE VfsOk([st EXCEPT ![p] = DirNode], b)

\* VfsAction::RemoveDirAll
VfsRemoveDirAll(st, p, b) ==
  IF TimesOut(b) THEN VfsErr(st, b, "Timeout")
  ELSE IF KindOf(st, p) = "none" THEN VfsErr(st, b, "NotFound")
  ELSE IF KindOf(st, p) = "file" THEN VfsErr(st, b, "NotADirectory")
  ELSE VfsOk([q \in DOMAIN st |->
               IF q = p \/ IsDescendant(q, p) THEN NoNode ELSE st[q]], b)

(***************************************************************************)
(* Results of the handlers.                                                *)
(***************************************************************************)
NoInfo ==
  [name |-> <<>>, path |-> <<>>, size |-> 0, created |-> 0, modified |-> 0,
   is_directory |-> FALSE, permissions |-> ""]

\* the FileInfo built by create_file, update_file and create_directory
FileInfo(path, size, isDir) ==
  [name |-> SplitLast(path, "/"), path |-> path, size |-> size, created |-> 0,
   modified |-> 0, is_directory |-> isDir, permissions |-> "rw"]

\* A handler's result.  ok: Ok(_) or Err(_); err, cause: the error string
\* (its fixed text and the backend error it embeds); bytes: Vec<u8>;
\* flag: bool; some, str: Option<String> or String; info: FileInfo;
\* headers: the response headers added, in order; read: the path
\* serve_shared_file handed to read_file.
NoRes ==
  [ok |-> TRUE, err |-> "", cause |-> "", bytes |-> <<>>, flag |-> FALSE,
   some |-> FALSE, str |-> <<>>, info |-> NoInfo, headers |-> <<>>,
   read |-> <<>>]

ErrRes(err, cause) == [NoRes EXCEPT !.ok = FALSE, !.err = err, !.cause = cause]
BytesRes(b) == [NoRes EXCEPT !.bytes = b]
BoolRes(b) == [NoRes EXCEPT !.flag = b]
StrRes(s) == [NoRes EXCEPT !.some = TRUE, !.str = s]
NoneRes == NoRes
InfoRes(i) == [NoRes EXCEPT !.info = i]

\* what a handler leaves behind: the store, its result, and the backend
\* calls for what follows
Out(st, res, b) == [store |-> st, res |-> res, b |-> b]

(***************************************************************************)
(* File operations.                                                        *)
(***************************************************************************)
create_file_op(st, path, content, b) ==
  LET c == VfsCreateFile(st, path, b) IN
  IF ~c.ok THEN Out(c.store, ErrRes("Failed to create file", c.cause), c.b)
  ELSE
  LET w == VfsWrite(c.store, path, content, c.b) IN
  IF ~w.ok THEN Out(w.store, ErrRes("Failed to write file", w.cause), w.b)
  ELSE
  LET m == VfsMetadata(w.store, path, w.b) IN
  IF ~m.ok THEN Out(m.store, ErrRes("Failed to get metadata", m.cause), m.b)
  ELSE Out(m.store, InfoRes(FileInfo(path, m.len, FALSE)), m.b)

read_file_op(st, path, b) ==
  LET o == VfsOpenFile(st, path, b) IN
  IF ~o.ok THEN Out(o.store, ErrRes("Failed to open file", o.cause), o.b)
  ELSE
  LET r == VfsRead(o.store, path, o.b) IN
  IF ~r.ok THEN Out(r.store, ErrRes("Failed to read file", r.cause), r.b)
  ELSE Out(r.store, BytesRes(r.data), r.b)

\* mutant of update_file_op: writes at the start of the file and keeps what
\* lies beyond the written bytes
update_file_op_WriteAt(st, path, content, b) ==
  LET o == VfsOpenFile(st, path, b) IN
  IF ~o.ok THEN Out(o.store, ErrRes("Failed to open file", o.cause), o.b)
  ELSE
  LET old == o.store[path].data
      w == VfsWrite(o.store, path,
                    content \o SubSeq(old, Len(content) + 1, Len(old)), o.b) IN
  IF ~w.ok THEN Out(w.store, ErrRes("Failed to write file", w.cause), w.b)
  ELSE
  LET m == VfsMetadata(w.store, path, w.b) IN
  IF ~m.ok THEN Out(m.store, ErrRes("Failed to get metadata", m.cause), m.b)
  ELSE Out(m.store, InfoRes(FileInfo(path, m.len, FALSE)), m.b)

\* mutant of update_file_op: the file is opened with create = true
update_file_op_Create(st, path, content, b) ==
  create_file_op(st, path, content, b)

update_file_op(st, path, content, b) ==
  LET o == VfsOpenFile(st, path, b) IN
  IF ~o.ok THEN Out(o.store, ErrRes("Failed to open file", o.cause), o.b)
  ELSE
  LET w == VfsWrite(o.store, path, content, o.b) IN
  IF ~w.ok THEN Out(w.store, ErrRes("Failed to write file", w.cause), w.b)
  ELSE
  LET m == VfsMetadata(w.store, path, w.b) IN
  IF ~m.ok THEN Out(m.store, ErrRes("Failed to get metadata", m.cause), m.b)
  ELSE Out(m.store, InfoRes(FileInfo(path, m.len, FALSE)), m.b)

delete_file_op(st, path, b) ==
  LET d == VfsRemoveFile(st, path, b) IN
  IF ~d.ok THEN Out(d.store, ErrRes("Failed to delete file", d.cause), d.b)
  ELSE Out(d.store, BoolRes(TRUE), d.b)

create_directory_op(st, path, b) ==
  LET d == VfsOpenDir(st, path, b) IN
  IF ~d.ok THEN Out(d.store, ErrRes("Failed to create directory", d.cause), d.b)
  ELSE Out(d.store, InfoRes(FileInfo(path, 0, TRUE)), d.b)

\* mutant of delete_directory_op: only the directory itself is removed
delete_directory_op_Shallow(st, path, b) ==
  LET d == VfsRemoveDirAll(st, path, b) IN
  IF d.ok THEN Out([st EXCEPT ![path] = NoNode], BoolRes(TRUE), d.b)
  ELSE IF d.cause = "Timeout"
  THEN Out(d.store, ErrRes("Failed to send VFS request", d.cause), d.b)
  ELSE Out(d.store, ErrRes("Failed to delete directory", d.cause), d.b)

delete_directory_op(st, path, b) ==
  LET d == VfsRemoveDirAll(st, path, b) IN
  IF d.ok THEN Out(d.store, BoolRes(TRUE), d.b)
  ELSE IF d.cause = "Timeout"
  THEN Out(d.store, ErrRes("Failed to send VFS request", d.cause), d.b)
  ELSE Out(d.store, ErrRes("Failed to delete directory", d.cause), d.b)

\* mutant of move_file_op: the source is not deleted
move_file_op_NoDelete(st, source, destination, b) ==
  LET r == read_file_op(st, source, b) IN
  IF ~r.res.ok THEN r
  ELSE create_file_op(r.store, destination, r.res.bytes, r.b)

\* mutant of move_file_op: a failed delete removes the destination again
move_file_op_Rollback(st, source, destination, b) ==
  LET r == read_file_op(st, source, b) IN
  IF ~r.res.ok THEN r
  ELSE
  LET c == create_file_op(r.store, destination, r.res.bytes, r.b) IN
  IF ~c.res.ok THEN c
  ELSE
  LET d == delete_file_op(c.store, source, c.b) IN
  IF ~d.res.ok
  THEN Out(delete_file_op(d.store, destination, d.b).store, d.res, d.b)
  ELSE Out(d.store, c.res, d.b)

\* mutant of move_file_op: the delete is issued although the create failed
move_file_op_DeleteAnyway(st, source, destination, b) ==
  LET r == read_file_op(st, source, b) IN
  IF ~r.res.ok THEN r
  ELSE
  LET c == create_file_op(r.store, destination, r.res.bytes, r.b)
      d == delete_file_op(c.store, source, c.b) IN
  IF ~c.res.ok THEN Out(d.store, c.res, d.b)
  ELSE IF ~d.res.ok THEN d
  ELSE Out(d.store, c.res, d.b)

move_file_op(st, source, destination, b) ==
  LET r == read_file_op(st, source, b) IN
  IF ~r.res.ok THEN r
  ELSE
  LET c == create_file_op(r.store, destination, r.res.bytes, r.b) IN
  IF ~c.res.ok THEN c
  ELSE
  LET d == delete_file_op(c.store, source, c.b) IN
  IF ~d.res.ok THEN d
  ELSE Out(d.store, c.res, d.b)

\* mutant of copy_file_op: the source is deleted after the copy
copy_file_op_AsMove(st, source, destination, b) ==
  move_file_op(st, source, destination, b)

copy_file_op(st, source, destination, b) ==
  LET r == read_file_op(st, source, b) IN
  IF ~r.res.ok THEN r
  ELSE create_file_op(r.store, destination, r.res.bytes, r.b)

(***************************************************************************)
(* Directory listing: list_directory and list_directory_contents.          *)
(***************************************************************************)
\* the node a directory path names: "/" is the root of the store
DirOf(p) == IF p = <<"/">> THEN Root ELSE p

\* the nodes directly below the directory dir
ChildrenOf(st, dir) ==
  {q \in DOMAIN st : st[q].kind # "none" /\ ParentOf(q) = dir}

\* vfs::DirEntry: the path is absolute
DirEntry(st, q) ==
  [path |-> q, file_type |-> IF st[q].kind = "dir" THEN "Directory" ELSE "File"]

\* the orders in which the store can answer a directory read: ord lists the
\* nodes, and a read answers the children of the directory in the order ord
\* has them.  Every order of the children of every directory occurs.
ReadOrders ==
  { <<PathAB, PathBA, PathABA, PathABB, PathABAB>>,
    <<PathBA, PathAB, PathABB, PathABA, PathABAB>> }

\* Directory::read, VfsAction::ReadDir: the immediate children
VfsReadDir(st, p, ord, b) ==
  IF TimesOut(b) THEN VfsErr(st, b, "Timeout")
  ELSE IF KindOf(st, DirOf(p)) = "none" THEN VfsErr(st, b, "NotFound")
  ELSE IF KindOf(st, DirOf(p)) = "file" THEN VfsErr(st, b, "NotADirectory")
  ELSE LET in_order == SelectSeq(ord, LAMBDA q : q \in ChildrenOf(st, DirOf(p))) IN
       [VfsOk(st, b) EXCEPT
          !.data = [i \in 1..Len(in_order) |-> DirEntry(st, in_order[i])]]

\* The backend calls of one listing: fails is the set of the calls that fail
\* (the k-th call fails when k is in it), log the calls issued so far.
BackendAt(fails, log) ==
  [t |-> IF (Len(log) + 1) \in fails THEN 1 ELSE 0, n |-> Len(log)]

Logged(log, action, path, ok) ==
  Append(log, [action |-> action, path |-> path, ok |-> ok])

\* the Result<Vec<FileInfo>, String> of a listing, with the backend calls it
\* issued
ListRes(ok, err, cause, entries, log) ==
  [ok |-> ok, err |-> err, cause |-> cause, entries |-> entries, log |-> log]

\* mutant of ListSubEntries: a directory among the sub-entries is read for
\* its child count
RECURSIVE ListSubEntries_ReadsDeeper(_, _, _, _, _, _)
ListSubEntries_ReadsDeeper(st, sub_entries, j, all_files, log, fails) ==
  IF j > Len(sub_entries) THEN [entries |-> all_files, log |-> log]
  ELSE
  LET sub_full_path == sub_entries[j].path IN
  IF sub_entries[j].file_type = "Directory"
  THEN LET r == VfsReadDir(st, sub_full_path, <<>>, BackendAt(fails, log)) IN
       ListSubEntries_ReadsDeeper(st, sub_entries, j + 1,
         Append(all_files, FileInfo(sub_full_path, 0, TRUE)),
         Logged(log, "ReadDir", sub_full_path, r.ok), fails)
  ELSE LET m == VfsMetadata(st, sub_full_path, BackendAt(fails, log)) IN
       ListSubEntries_ReadsDeeper(st, sub_entries, j + 1,
         IF m.ok THEN Append(all_files, FileInfo(sub_full_path, m.len, FALSE))
                 ELSE all_files,
         Logged(log, "Metadata", sub_full_path, m.ok), fails)

\* mutant of ListSubEntries: the directories among the sub-entries are left
\* out
RECURSIVE ListSubEntries_FilesOnly(_, _, _, _, _, _)
ListSubEntries_FilesOnly(st, sub_entries, j, all_files, log, fails) ==
  IF j > Len(sub_entries) THEN [entries |-> all_files, log |-> log]
  ELSE
  LET sub_full_path == sub_entries[j].path IN
  IF sub_entries[j].file_type = "Directory"
  THEN ListSubEntries_FilesOnly(st, sub_entries, j + 1, all_files, log, fails)
  ELSE LET m == VfsMetadata(st, sub_full_path, BackendAt(fails, log)) IN
       ListSubEntries_FilesOnly(st, sub_entries, j + 1,
         IF m.ok THEN Append(all_files, FileInfo(sub_full_path, m.len, FALSE))
                 ELSE all_files,
         Logged(log, "Metadata", sub_full_path, m.ok), fails)

\* mutant of ListSubEntries: the expansion of the directory ends at the
\* first file whose metadata fails
RECURSIVE ListSubEntries_StopsAtFailure(_, _, _, _, _, _)
ListSubEntries_StopsAtFailure(st, sub_entries, j, all_files, log, fails) ==
  IF j > Len(sub_entries) THEN [entries |-> all_files, log |-> log]
  ELSE
  LET sub_full_path == sub_entries[j].path IN
  IF sub_entries[j].file_type = "Directory"
  THEN ListSubEntries_StopsAtFailure(st, sub_entries, j + 1,
         Append(all_files, FileInfo(sub_full_path, 0, TRUE)), log, fails)
  ELSE LET m == VfsMetadata(st, sub_full_path, BackendAt(fails, log)) IN
       IF ~m.ok
       THEN [entries |-> all_files,
             log |-> Logged(log, "Metadata", sub_full_path, m.ok)]
       ELSE ListSubEntries_StopsAtFailure(st, sub_entries, j + 1,
              Append(all_files, FileInfo(sub_full_path, m.len, FALSE)),
              Logged(log, "Metadata", sub_full_path, m.ok), fails)

\* the loop over sub_entries, from the j-th on
RECURSIVE ListSubEntries(_, _, _, _, _, _)
ListSubEntries(st, sub_entries, j, all_files, log, fails) ==
  IF j > Len(sub_entries) THEN [entries |-> all_files, log |-> log]
  ELSE
  LET sub_full_path == sub_entries[j].path IN
  IF sub_entries[j].file_type = "Directory"
  THEN ListSubEntries(st, sub_entries, j + 1,
         Append(all_files, FileInfo(sub_full_path, 0, TRUE)), log, fails)
  ELSE LET m == VfsMetadata(st, sub_full_path, BackendAt(fails, log)) IN
       ListSubEntries(st, sub_entries, j + 1,
         IF m.ok THEN Append(all_files, FileInfo(sub_full_path, m.len, FALSE))
                 ELSE all_files,
         Logged(log, "Metadata", sub_full_path, m.ok), fails)

\* the bytes of the files among entries
RECURSIVE SumSizes(_, _)
SumSizes(st, entries) ==
  IF entries = <<>> THEN 0
  ELSE Len(st[Head(entries).path].data) + SumSizes(st, Tail(entries))

\* mutant of ListEntries: the size of a directory is the sum of the sizes of
\* the files in it
RECURSIVE ListEntries_CumulativeSize(_, _, _, _, _, _, _)
ListEntries_CumulativeSize(st, entries, i, all_files, log, fails, ord) ==
  IF i > Len(entries) THEN ListRes(TRUE, "", "", all_files, log)
  ELSE
  LET full_path == entries[i].path IN
  IF entries[i].file_type = "Directory"
  THEN LET sub_dir == VfsReadDir(st, full_path, ord, BackendAt(fails, log))
           log1 == Logged(log, "ReadDir", full_path, sub_dir.ok)
           dir_size == IF sub_dir.ok THEN SumSizes(st, sub_dir.data) ELSE 0
           pushed == Append(all_files, FileInfo(full_path, dir_size, TRUE))
           sub_dir2 == VfsReadDir(st, full_path, ord, BackendAt(fails, log1))
           log2 == Logged(log1, "ReadDir", full_path, sub_dir2.ok)
           sub == IF sub_dir2.ok
                  THEN ListSubEntries(st, sub_dir2.data, 1, pushed, log2, fails)
                  ELSE [entries |-> pushed, log |-> log2]
       IN ListEntries_CumulativeSize(st, entries, i + 1, sub.entries, sub.log,
                                     fails, ord)
  ELSE LET m == VfsMetadata(st, full_path, BackendAt(fails, log))
           log1 == Logged(log, "Metadata", full_path, m.ok)
       IN IF ~m.ok
          THEN ListRes(FALSE, "Failed to get metadata for", m.cause, <<>>, log1)
          ELSE ListEntries_CumulativeSize(st, entries, i + 1,
                 Append(all_files, FileInfo(full_path, m.len, FALSE)),
                 log1, fails, ord)

\* mutant of ListEntries: a failed read of a subdirectory fails the call
RECURSIVE ListEntries_SubReadFatal(_, _, _, _, _, _, _)
ListEntries_SubReadFatal(st, entries, i, all_files, log, fails, ord) ==
  IF i > Len(entries) THEN ListRes(TRUE, "", "", all_files, log)
  ELSE
  LET full_path == entries[i].path IN
  IF entries[i].file_type = "Directory"
  THEN LET sub_dir == VfsReadDir(st, full_path, ord, BackendAt(fails, log))
           log1 == Logged(log, "ReadDir", full_path, sub_dir.ok)
           dir_size == IF sub_dir.ok THEN Len(sub_dir.data) ELSE 0
           pushed == Append(all_files, FileInfo(full_path, dir_size, TRUE))
           sub_dir2 == VfsReadDir(st, full_path, ord, BackendAt(fails, log1))
           log2 == Logged(log1, "ReadDir", full_path, sub_dir2.ok)
           sub == IF sub_dir2.ok
                  THEN ListSubEntries(st, sub_dir2.data, 1, pushed, log2, fails)
                  ELSE [entries |-> pushed, log |-> log2]
       IN IF ~sub_dir.ok
          THEN ListRes(FALSE, "Failed to read directory", sub_dir.cause, <<>>, log1)
          ELSE IF ~sub_dir2.ok
          THEN ListRes(FALSE, "Failed to read directory", sub_dir2.cause, <<>>, log2)
          ELSE ListEntries_SubReadFatal(st, entries, i + 1, sub.entries,
                                        sub.log, fails, ord)
  ELSE LET m == VfsMetadata(st, full_path, BackendAt(fails, log))
           log1 == Logged(log, "Metadata", full_path, m.ok)
       IN IF ~m.ok
          THEN ListRes(FALSE, "Failed to get metadata for", m.cause, <<>>, log1)
          ELSE ListEntries_SubReadFatal(st, entries, i + 1,
                 Append(all_files, FileInfo(full_path, m.len, FALSE)),
                 log1, fails, ord)

\* the loop over entries (level 1), from the i-th on
\* mutant of ListEntries: the size of a level-1 directory is the number of
\* level-2 entries pushed for it
RECURSIVE ListEntries_CountEmitted(_, _, _, _, _, _, _)
ListEntries_CountEmitted(st, entries, i, all_files, log, fails, ord) ==
  IF i > Len(entries) THEN ListRes(TRUE, "", "", all_files, log)
  ELSE
  LET full_path == entries[i].path IN
  IF entries[i].file_type = "Directory"
  THEN LET sub_dir == VfsReadDir(st, full_path, ord, BackendAt(fails, log))
           log1 == Logged(log, "ReadDir", full_path, sub_dir.ok)
           pushed == Append(all_files, FileInfo(full_path, 0, TRUE))
           sub_dir2 == VfsReadDir(st, full_path, ord, BackendAt(fails, log1))
           log2 == Logged(log1, "ReadDir", full_path, sub_dir2.ok)
           sub == IF sub_dir2.ok
                  THEN ListSubEntries(st, sub_dir2.data, 1, pushed, log2, fails)
                  ELSE [entries |-> pushed, log |-> log2]
           counted == [sub.entries EXCEPT ![Len(pushed)] =
                         FileInfo(full_path, Len(sub.entries) - Len(pushed), TRUE)]
       IN ListEntries_CountEmitted(st, entries, i + 1, counted, sub.log, fails, ord)
  ELSE LET m == VfsMetadata(st, full_path, BackendAt(fails, log))
           log1 == Logged(log, "Metadata", full_path, m.ok)
       IN IF ~m.ok
          THEN ListRes(FALSE, "Failed to get metadata for", m.cause, <<>>, log1)
          ELSE ListEntries_CountEmitted(st, entries, i + 1,
                 Append(all_files, FileInfo(full_path, m.len, FALSE)),
                 log1, fails, ord)

RECURSIVE ListEntries(_, _, _, _, _, _, _)
ListEntries(st, entries, i, all_files, log, fails, ord) ==
  IF i > Len(entries) THEN ListRes(TRUE, "", "", all_files, log)
  ELSE
  LET full_path == entries[i].path IN
  IF entries[i].file_type = "Directory"
  THEN LET sub_dir == VfsReadDir(st, full_path, ord, BackendAt(fails, log))
           log1 == Logged(log, "ReadDir", full_path, sub_dir.ok)
           dir_size == IF sub_dir.ok THEN Len(sub_dir.data) ELSE 0
           pushed == Append(all_files, FileInfo(full_path, dir_size, TRUE))
           sub_dir2 == VfsReadDir(st, full_path, ord, BackendAt(fails, log1))
           log2 == Logged(log1, "ReadDir", full_path, sub_dir2.ok)
           sub == IF sub_dir2.ok
                  THEN ListSubEntries(st, sub_dir2.data, 1, pushed, log2, fails)
                  ELSE [entries |-> pushed, log |-> log2]
       IN ListEntries(st, entries, i + 1, sub.entries, sub.log, fails, ord)
  ELSE LET m == VfsMetadata(st, full_path, BackendAt(fails, log))
           log1 == Logged(log, "Metadata", full_path, m.ok)
       IN IF ~m.ok
          THEN ListRes(FALSE, "Failed to get metadata for", m.cause, <<>>, log1)
          ELSE ListEntries(st, entries, i + 1,
                 Append(all_files, FileInfo(full_path, m.len, FALSE)),
                 log1, fails, ord)

list_directory_contents_op(st, path, fails, ord) ==
  LET dir == VfsReadDir(st, path, ord, BackendAt(fails, <<>>))
      log == Logged(<<>>, "ReadDir", path, dir.ok)
  IN IF ~dir.ok
     THEN ListRes(FALSE, "Failed to read directory", dir.cause, <<>>, log)
     ELSE ListEntries(st, dir.data, 1, <<>>, log, fails, ord)

\* the path list_directory lists
VfsPathOf(path) == IF path = <<"/">> \/ path = <<>> THEN <<"/">> ELSE path

list_directory_op(st, path, fails, ord) ==
  list_directory_contents_op(st, VfsPathOf(path), fails, ord)

(***************************************************************************)
(* Share registry: shared_files is a HashMap<String, AuthScheme>, a        *)
(* function from the registered paths to their policies.                   *)
(***************************************************************************)
EmptyMap == [p \in {} |-> "Public"]

\* mutant of HashMapInsert: an existing entry keeps its value
HashMapInsert_KeepOld(m, k, v) ==
  [p \in DOMAIN m \cup {k} |-> IF p \in DOMAIN m THEN m[p] ELSE v]

HashMapInsert(m, k, v) == [p \in DOMAIN m \cup {k} |-> IF p = k THEN v ELSE m[p]]

\* mutant of HashMapRemove: removes every entry whose share id is that of k
HashMapRemove_ById(m, k) ==
  [p \in {q \in DOMAIN m : derive_share_id(q) # derive_share_id(k)} |-> m[p]]

HashMapRemove(m, k) == [p \in DOMAIN m \ {k} |-> m[p]]

ContainsKey(m, k) == k \in DOMAIN m

\* the Option<AuthScheme> that insert and remove return: the policy the key
\* had, "" for None
HashMapOld(m, k) == IF k \in DOMAIN m THEN m[k] ELSE ""

\* the orders in which iterating the HashMap can yield its entries
IterOrders(m) ==
  {o \in [1..Cardinality(DOMAIN m) -> DOMAIN m] :
     \A i, j \in DOMAIN o : o[i] = o[j] => i = j}

share_file_op(m, path, auth) ==
  [shared |-> HashMapInsert(m, path, auth), old |-> HashMapOld(m, path),
   res |-> StrRes(ShareLink(path))]

\* mutant of unshare_file_op: answers as it should and keeps the entry
unshare_file_op_KeepEntry(m, path) ==
  [shared |-> m, old |-> HashMapOld(m, path),
   res |-> BoolRes(HashMapOld(m, path) # "")]

unshare_file_op(m, path) ==
  [shared |-> HashMapRemove(m, path), old |-> HashMapOld(m, path),
   res |-> BoolRes(HashMapOld(m, path) # "")]

\* mutant of get_share_link_op: the link is built without the lookup
get_share_link_op_NoCheck(m, path) == StrRes(ShareLink(path))

get_share_link_op(m, path) ==
  IF ContainsKey(m, path) THEN StrRes(ShareLink(path)) ELSE NoneRes

(***************************************************************************)
(* Share gateway.                                                          *)
(***************************************************************************)
ContentType(filename) ==
  LET ext == SplitLast(filename, ".") IN
  CASE ext = <<"t","x","t">> -> "text/plain"
    [] ext = <<"h","t","m","l">> \/ ext = <<"h","t","m">> -> "text/html"
    [] ext = <<"c","s","s">> -> "text/css"
    [] ext = <<"j","s">> -> "application/javascript"
    [] ext = <<"j","s","o","n">> -> "application/json"
    [] ext = <<"p","n","g">> -> "image/png"
    [] ext = <<"j","p","g">> \/ ext = <<"j","p","e","g">> -> "image/jpeg"
    [] ext = <<"g","i","f">> -> "image/gif"
    [] ext = <<"p","d","f">> -> "application/pdf"
    [] ext = <<"z","i","p">> -> "application/zip"
    [] OTHER -> "application/octet-stream"

\* the headers the Public branch adds before it reads the file
ServeHeaders(path) ==
  LET filename == SplitLast(path, "/") IN
  << [name |-> "Content-Disposition", filename |-> filename, value |-> "attachment"],
     [name |-> "Content-Type", filename |-> <<>>, value |-> ContentType(filename)] >>

\* mutant of IdMatches: the requested id only has to start the entry's id
IdMatches_Prefix(path, share_id) == IsPrefix(share_id, derive_share_id(path))

\* the comparison of an entry's id with the requested one
IdMatches(path, share_id) == derive_share_id(path) = share_id

\* mutant of ServeMatch: the policy is not looked at
ServeMatch_NoPolicy(path, auth_scheme, st, b) ==
  LET r == read_file_op(st, path, b) IN
  Out(r.store, [r.res EXCEPT !.headers = ServeHeaders(path), !.read = path], r.b)

\* mutant of ServeMatch: a Public path that holds no file is not found
ServeMatch_AbsentNotFound(path, auth_scheme, st, b) ==
  IF auth_scheme = "Public"
  THEN IF KindOf(st, path) # "file"
       THEN Out(st, ErrRes("File not found or not shared", ""), b)
       ELSE LET r == read_file_op(st, path, b) IN
            Out(r.store, [r.res EXCEPT !.headers = ServeHeaders(path), !.read = path], r.b)
  ELSE Out(st, ErrRes("Access denied: Private file", ""), b)

\* the entry the scan stops at decides by its policy
ServeMatch(path, auth_scheme, st, b) ==
  IF auth_scheme = "Public"
  THEN LET r == read_file_op(st, path, b) IN
       Out(r.store, [r.res EXCEPT !.headers = ServeHeaders(path), !.read = path], r.b)
  ELSE Out(st, ErrRes("Access denied: Private file", ""), b)

\* the scan of serve_shared_file: the entries in iteration order from the
\* i-th on; the first entry whose id is share_id decides
RECURSIVE ServeScan(_, _, _, _, _, _)
ServeScan(m, order, i, share_id, st, b) ==
  IF i > Len(order) THEN Out(st, ErrRes("File not found or not shared", ""), b)
  ELSE IF IdMatches(order[i], share_id)
  THEN ServeMatch(order[i], m[order[i]], st, b)
  ELSE ServeScan(m, order, i + 1, share_id, st, b)

\* req is get_path(), an Option
serve_shared_file_op(m, order, req, st, b) ==
  IF req.some
  THEN LET share_id == StripPrefix(req.v, SharedPrefix) IN
       IF share_id.some
       THEN ServeScan(m, order, 1, share_id.v, st, b)
       ELSE Out(st, ErrRes("Invalid shared file path", ""), b)
  ELSE Out(st, ErrRes("No request path provided", ""), b)

(***************************************************************************)
(* jendrix-tune (src/jendrix-tune/src/lib.rs): the pitch-correction         *)
(* parameters.  The f32 parameters are counted in tenths: 5 is 0.5.         *)
(***************************************************************************)
Key == {"C", "CSharp", "D", "DSharp", "E", "F", "FSharp", "G", "GSharp",
        "A", "ASharp", "B"}

Scale == {"Major", "Minor"}

\* #[derive(Default)] of AppState
DefaultAppState ==
  [key |-> "C", scale |-> "Major", retune_speed |-> 0, humanize |-> 0,
   mix |-> 0, formant_preserve |-> FALSE, bypass |-> FALSE]

\* a clamp that bounds its argument from below only
Clamp_NoUpper(x, lo, hi) == IF x < lo THEN lo ELSE x

\* f32::clamp
Clamp(x, lo, hi) == IF x < lo THEN lo ELSE IF x > hi THEN hi ELSE x

\* the #[init] handler
initialize_op(s) ==
  [s EXCEPT !.key = "C", !.scale = "Major", !.retune_speed = 5,
            !.humanize = 1, !.mix = 10, !.formant_preserve = TRUE,
            !.bypass = FALSE]

\* the Status get_status answers (node is the name of the node)
get_status_op(s) ==
  [key |-> s.key, scale |-> s.scale, retune_speed |-> s.retune_speed,
   humanize |-> s.humanize, mix |-> s.mix,
   formant_preserve |-> s.formant_preserve, bypass |-> s.bypass,
   node |-> "our"]

set_key_op(s, key) == [s EXCEPT !.key = key]
set_scale_op(s, scale) == [s EXCEPT !.scale = scale]
set_retune_speed_op(s, speed) == [s EXCEPT !.retune_speed = Clamp(speed, 0, 10)]
set_humanize_op(s, amount) == [s EXCEPT !.humanize = Clamp(amount, 0, 10)]
set_mix_op(s, mix) == [s EXCEPT !.mix = Clamp(mix, 0, 10)]
set_formant_preserve_op(s, enabled) == [s EXCEPT !.formant_preserve = enabled]
set_bypass_op(s, bypass) == [s EXCEPT !.bypass = bypass]

\* params is the tuple (key, scale, retune_speed, humanize, mix,
\* formant_preserve, bypass)
update_all_params_op(s, params) ==
  [key |-> params[1], scale |-> params[2],
   retune_speed |-> Clamp(params[3], 0, 10),
   humanize |-> Clamp(params[4], 0, 10), mix |-> Clamp(params[5], 0, 10),
   formant_preserve |-> params[6], bypass |-> params[7]]

\* SaveOptions::OnDiff: after a handler the state is saved when it differs
\* from what was saved last
SaveOnDiff(s, saved) == IF s # saved THEN s ELSE saved

\* the start of the process: the saved state is loaded, then the #[init]
\* handler runs on it
StartTune(saved) == initialize_op(saved)

\* the requests the process handles: one for each #[local] or #[http]
\* handler of impl AppState, named after the handler
Handlers ==
  {"GetStatus", "SetKey", "SetScale", "SetRetuneSpeed", "SetHumanize",
   "SetMix", "SetFormantPreserve", "SetBypass", "UpdateAllParams"}

\* the jendrix-tune call being answered
NoStatus == get_status_op(DefaultAppState)
JCall(op, status) == [op |-> op, status |-> status]
JIdle == JCall("idle", NoStatus)

(***************************************************************************)
(* The process: its state and one action for each handler.                 *)
(***************************************************************************)
None == [some |-> FALSE, v |-> <<>>]
Some(x) == [some |-> TRUE, v |-> x]

\* the values get_path() is given in the model
RequestPaths ==
  {None, Some(SharedPrefix), Some(SubSeq(SharedPrefix, 1, 7)), Some(ShareLink(PathAB))}
  \cup {Some(SharedPrefix \o derive_share_id(p)) : p \in PathInputs}

PackageId == <<"f","i","l","e","-","e","x","p","l","o","r","e","r",":","s","y","s">>

\* the path create_drive(package_id, "home") answers
HomePath == <<"/">> \o PackageId \o <<"/","h","o","m","e">>

\* the paths set_current_directory is called with
CwdInputs == {<<"/">>}

\* the call being answered: the handler, its path arguments, its policy
\* argument, the request path (serve_shared_file), its result, the number
\* of backend calls it issued, the policy the path had in the registry
\* before (share_file, unshare_file) and the length of the file the path
\* held before (create_file, update_file)
Call(op, path, path2, auth, req, res, calls) ==
  [op |-> op, path |-> path, path2 |-> path2, auth |-> auth,
   req |-> req, res |-> res, calls |-> calls, old |-> "", oldlen |-> 0]

NoLink == [p \in PathInputs \cup ExtPaths |-> <<>>]

OldLen(st, path) == IF KindOf(st, path) = "file" THEN Len(st[path].data) ELSE 0

\* the nodes a call removed from the store
Removed(st, st2) == {q \in DOMAIN st : st[q].kind # "none" /\ st2[q].kind = "none"}

\* #[derive(Default)] of FileExplorerState
DefaultState == [shared_files |-> EmptyMap, cwd |-> <<>>]

\* mutant of LoadState: the state the process held was saved and is loaded
LoadState_Saved(held) == held

\* the state a start of the process begins with.  save_config is
\* SaveOptions::Never: nothing of the state the process held was saved
LoadState(held) == DefaultState

\* the #[init] handler; drive_ok: create_drive answered Ok(home_path)
init_op(s, drive_ok) ==
  [s EXCEPT !.cwd = IF drive_ok THEN HomePath ELSE <<"/">>]

\* The executor of the process.  A handler is a future; the executor polls
\* it until it is done or it suspends at an await, and takes the next
\* message only then.  A call that is followed step by step is a task: the
\* handler (op), the step it is to take next (pc), its arguments, the bytes
\* it has read (content), the FileInfo it has built (info), its result
\* (res), the tasks that returned between its call and its return
\* (overlapped), the handlers it has awaited (tried) and those of them that
\* answered Ok (did), and the tasks that had called delete_file when it
\* called read_file (read_after).
TaskIds == {1, 2}

Task(op, pc, path, path2, req) ==
  [op |-> op, pc |-> pc, path |-> path, path2 |-> path2, req |-> req,
   content |-> <<>>, info |-> NoInfo, res |-> NoRes, overlapped |-> {},
   tried |-> {}, did |-> {}, read_after |-> {}]

\* the record of task k after it has awaited callee, which answered ok
Awaited(k, callee, ok) ==
  [k EXCEPT !.tried = @ \cup {callee},
            !.did = IF ok THEN @ \cup {callee} ELSE @]

NoTask == Task("none", "done", <<>>, <<>>, None)

InProgress(k) == k.op # "none" /\ k.pc # "done"

\* mutant of Suspends: a handler suspends at every handler it awaits
Suspends_Always(callee) == TRUE

\* whether awaiting the handler callee can suspend the caller.  read_file
\* and create_file contain no await: vfs::open_file, File::read,
\* vfs::create_file, File::write and File::metadata block until the backend
\* has answered, so the future is done at its first poll.  delete_file
\* awaits vfs::remove_file, which suspends until the answer arrives.
Suspends(callee) == callee = "delete_file"

\* the task the executor polls after task t has awaited callee
Yield(t, callee) == IF Suspends(callee) THEN 0 ELSE t

\* task t returns: the tasks in progress have been overlapped by it
Returned(ts, t) ==
  [u \in TaskIds |->
     IF u = t THEN [ts[t] EXCEPT !.pc = "done"]
     ELSE IF InProgress(ts[u]) THEN [ts[u] EXCEPT !.overlapped = @ \cup {t}]
     ELSE ts[u]]

\* the scan of serve_shared_file up to its call of read_file: the path it
\* hands to read_file (<<>> when it returns before) and the result it
\* returns with when it does not read
ServeResolve(m, order, req, st) ==
  LET o == serve_shared_file_op(m, order, req, st, Backend(0)) IN
  [path |-> o.res.read, res |-> o.res]

(***************************************************************************)
(* The sign process (src/example-apps/sign/sign/src/lib.rs).                *)
(***************************************************************************)
\* the call of the sign process being answered
SCall(op, source, message, signature, res) ==
  [op |-> op, source |-> source, message |-> message,
   signature |-> signature, res |-> res]
SIdle == SCall("idle", <<>>, <<>>, <<>>, NoRes)

\* our(): the address of the sign process, as the string net:distro:sys
\* prepends to what it signs
SignAddress == <<"s", "i", "g", "n">>

\* source().to_string() of the local callers (the id process among them):
\* node@process:package:publisher, here the part in which two callers of
\* one node differ; the publisher of AddrB continues that of AddrA
AddrA == <<"i", "d", ":", "s">>
AddrB == <<"i", "d", ":", "s", "x">>
AddrC == <<"f", "e", ":", "s">>
Sources == {AddrA, AddrB, AddrC}

\* the messages (Vec<u8>) the callers sign and verify
Messages == {<<>>, <<"x">>, <<"y">>}

\* mutant of make_message: the message alone
make_message_NoSource(source, bytes) == bytes

\* [source().to_string().as_bytes(), &bytes].concat()
make_message(source, bytes) == source \o bytes

\* the network signer: it signs the sender of the request followed by the
\* blob with the networking key of the node.  A signature is modelled by the
\* bytes it was made for: two signatures are equal exactly when the signed
\* bytes are, and none can be made without the signer.
NetSign(sender, blob) == <<"$">> \o sender \o blob
NetVerify(sender, blob, signature) == signature = NetSign(sender, blob)

\* a signature the signer never made
Forged == <<"?">>

\* the signature a caller was handed for a message
Grant(source, message, signature) ==
  [source |-> source, message |-> message, signature |-> signature]

\* the answers of net:distro:sys to the sign process
SignAnswers == {"Signed", "Timeout", "NoBlob"}
VerifyAnswers == {"Verified", "Timeout", "Other"}

\* sign(message) called by source: the blob handed to the signer and the
\* result returned
sign_op(source, message, net) ==
  LET blob == make_message(source, message) IN
  [blob |-> blob,
   res |-> CASE net = "Timeout" -> ErrRes("send", "Timeout")
             [] net = "NoBlob" -> ErrRes("no blob", "")
             [] OTHER -> BytesRes(NetSign(SignAddress, blob))]

\* verify(message, signature) called by source
verify_op(source, message, signature, net) ==
  LET blob == make_message(source, message) IN
  [blob |-> blob,
   res |-> CASE net = "Timeout" -> ErrRes("send", "Timeout")
             [] net = "Other" -> ErrRes("weird response", "")
             [] OTHER -> BoolRes(NetVerify(SignAddress, blob, signature))]

\* no call is being answered: the process waits for the next request
Idle == Call("idle", <<>>, <<>>, "", None, NoRes, 0)

Init ==
  /\ store = [p \in Nodes |-> NoNode]
  /\ shared_files = EmptyMap
  /\ cwd \in {HomePath, <<"/">>}
  /\ ret = Idle
  /\ issued = NoLink
  /\ revoked = {}
  /\ app_state = StartTune(DefaultAppState)
  /\ saved_state = DefaultAppState
  /\ jret = JIdle
  /\ tasks = [t \in TaskIds |-> NoTask]
  /\ running = 0
  /\ sigs = {}
  /\ sret = SIdle

create_file(path, content, f) ==
  LET o == create_file_op(store, path, content, Backend(f)) IN
  /\ ret = Idle
  /\ running = 0
  /\ store' = o.store
  /\ ret' = [Call("create_file", path, <<>>, "", None, o.res, o.b.n)
               EXCEPT !.oldlen = OldLen(store, path)]
  /\ UNCHANGED <<shared_files, cwd, issued, revoked, jendrix, overlap, signer>>

read_file(path, f) ==
  LET o == read_file_op(store, path, Backend(f)) IN
  /\ ret = Idle
  /\ running = 0
  /\ store' = o.store
  /\ ret' = Call("read_file", path, <<>>, "", None, o.res, o.b.n)
  /\ UNCHANGED <<shared_files, cwd, issued, revoked, jendrix, overlap, signer>>

update_file(path, content, f) ==
  LET o == update_file_op(store, path, content, Backend(f)) IN
  /\ ret = Idle
  /\ running = 0
  /\ store' = o.store
  /\ ret' = [Call("update_file", path, <<>>, "", None, o.res, o.b.n)
               EXCEPT !.oldlen = OldLen(store, path)]
  /\ UNCHANGED <<shared_files, cwd, issued, revoked, jendrix, overlap, signer>>

delete_file(path, f) ==
  LET o == delete_file_op(store, path, Backend(f)) IN
  /\ ret = Idle
  /\ running = 0
  /\ store' = o.store
  /\ ret' = Call("delete_file", path, <<>>, "", None, o.res, o.b.n)
  /\ UNCHANGED <<shared_files, cwd, issued, revoked, jendrix, overlap, signer>>

create_directory(path, f) ==
  LET o == create_directory_op(store, path, Backend(f)) IN
  /\ ret = Idle
  /\ running = 0
  /\ store' = o.store
  /\ ret' = Call("create_directory", path, <<>>, "", None, o.res, o.b.n)
  /\ UNCHANGED <<shared_files, cwd, issued, revoked, jendrix, overlap, signer>>

delete_directory(path, f) ==
  LET o == delete_directory_op(store, path, Backend(f)) IN
  /\ ret = Idle
  /\ running = 0
  /\ store' = o.store
  /\ ret' = Call("delete_directory", path, <<>>, "", None, o.res, o.b.n)
               @@ [removed |-> Removed(store, o.store)]
  /\ UNCHANGED <<shared_files, cwd, issued, revoked, jendrix, overlap, signer>>

\* upload_file(path, filename, content) is create_file(path/filename, content)
upload_file(path, filename, content, f) ==
  LET full_path == path \o <<"/">> \o filename
      o == create_file_op(store, full_path, content, Backend(f)) IN
  /\ ret = Idle
  /\ running = 0
  /\ full_path \in Nodes
  /\ store' = o.store
  /\ ret' = Call("upload_file", path, filename, "", None, o.res, o.b.n)
  /\ UNCHANGED <<shared_files, cwd, issued, revoked, jendrix, overlap, signer>>

share_file(path, auth) ==
  LET o == share_file_op(shared_files, path, auth) IN
  /\ ret = Idle
  /\ running = 0
  /\ shared_files' = o.shared
  /\ ret' = [Call("share_file", path, <<>>, auth, None, o.res, 0) EXCEPT !.old = o.old]
  /\ issued' = [issued EXCEPT ![path] = o.res.str]
  /\ revoked' = revoked \ {path}
  /\ UNCHANGED <<store, cwd, jendrix, overlap, signer>>

unshare_file(path) ==
  LET o == unshare_file_op(shared_files, path) IN
  /\ ret = Idle
  /\ running = 0
  /\ shared_files' = o.shared
  /\ ret' = [Call("unshare_file", path, <<>>, "", None, o.res, 0) EXCEPT !.old = o.old]
  /\ issued' = [issued EXCEPT ![path] = <<>>]
  /\ revoked' = revoked \cup {path}
  /\ UNCHANGED <<store, cwd, jendrix, overlap, signer>>

get_share_link(path) ==
  /\ ret = Idle
  /\ running = 0
  /\ ret' = Call("get_share_link", path, <<>>, "", None,
                 get_share_link_op(shared_files, path), 0)
  /\ UNCHANGED <<store, shared_files, cwd, issued, revoked, jendrix, overlap, signer>>

\* order: the order in which this run of the scan iterates the HashMap
serve_shared_file(req, f) ==
  \E order \in IterOrders(shared_files) :
    LET o == serve_shared_file_op(shared_files, order, req, store, Backend(f)) IN
    /\ ret = Idle
    /\ running = 0
  /\ running = 0
    /\ store' = o.store
    /\ ret' = Call("serve_shared_file", <<>>, <<>>, "", req, o.res, o.b.n)
    /\ UNCHANGED <<shared_files, cwd, issued, revoked, jendrix, overlap, signer>>

get_current_directory ==
  /\ ret = Idle
  /\ running = 0
  /\ ret' = Call("get_current_directory", <<>>, <<>>, "", None, StrRes(cwd), 0)
  /\ UNCHANGED <<store, shared_files, cwd, issued, revoked, jendrix, overlap, signer>>

set_current_directory(path) ==
  /\ ret = Idle
  /\ running = 0
  /\ cwd' = path
  /\ ret' = Call("set_current_directory", path, <<>>, "", None, StrRes(path), 0)
  /\ UNCHANGED <<store, shared_files, issued, revoked, jendrix, overlap, signer>>

move_file(source, destination, f) ==
  LET o == move_file_op(store, source, destination, Backend(f)) IN
  /\ ret = Idle
  /\ running = 0
  /\ store' = o.store
  /\ ret' = Call("move_file", source, destination, "", None, o.res, o.b.n)
  /\ UNCHANGED <<shared_files, cwd, issued, revoked, jendrix, overlap, signer>>

copy_file(source, destination, f) ==
  LET o == copy_file_op(store, source, destination, Backend(f)) IN
  /\ ret = Idle
  /\ running = 0
  /\ store' = o.store
  /\ ret' = Call("copy_file", source, destination, "", None, o.res, o.b.n)
  /\ UNCHANGED <<shared_files, cwd, issued, revoked, jendrix, overlap, signer>>

\* the paths list_directory is called with
ListInputs == {<<"/">>, <<>>, PathAB}

\* a listing of the store of the model issues at most seven backend calls
CallIndexes == 1..7

\* the sets of backend calls that fail during one listing
FailSets == {fails \in SUBSET CallIndexes : Cardinality(fails) <= MaxFail}

\* ord: the order in which the store answers the directory reads of this call
list_directory(path, fails, ord) ==
  LET res == list_directory_op(store, path, fails, ord) IN
  /\ ret = Idle
  /\ running = 0
  /\ ret' = Call("list_directory", path, <<>>, "", None, res, Len(res.log))
               @@ [ord |-> ord]
  /\ UNCHANGED <<store, shared_files, cwd, issued, revoked, jendrix, overlap, signer>>

\* the process stops and is started again: the state is loaded and the
\* #[init] handler runs.  The store is the node's and stays.  The call
\* record keeps the current directory the stopped process had (path) and
\* whether create_drive succeeded (flag).
restart(drive_ok) ==
  LET s == init_op(LoadState([shared_files |-> shared_files, cwd |-> cwd]),
                   drive_ok) IN
  /\ shared_files' = s.shared_files
  /\ cwd' = s.cwd
  /\ ret' = Call("init", cwd, <<>>, "", None, BoolRes(drive_ok), 1)
  /\ UNCHANGED <<store, issued, revoked, jendrix, overlap, signer>>

\* the result is sent as the response; the process takes the next request
respond ==
  /\ ret # Idle
  /\ ret' = Idle
  /\ UNCHANGED <<store, shared_files, cwd, issued, revoked, jendrix, overlap, signer>>

(***************************************************************************)
(* Calls followed step by step: move_file, serve_shared_file and            *)
(* unshare_file as tasks of the executor.  A step performs the backend      *)
(* calls of the handler it awaits; f is the index of the backend call that  *)
(* fails.  After the step the executor keeps polling the task unless the    *)
(* awaited handler suspends.                                                *)
(***************************************************************************)
call_move_file(t, source, destination) ==
  /\ running = 0
  /\ tasks[t].op = "none"
  /\ tasks' = [tasks EXCEPT ![t] =
                 Task("move_file", "read_file", source, destination, None)]
  /\ running' = t
  /\ UNCHANGED <<explorer, jendrix, signer>>

\* let content = self.read_file(source.clone()).await?;
move_read_file(t, f) ==
  LET k == tasks[t]
      o == read_file_op(store, k.path, Backend(f)) IN
  /\ k.op = "move_file" /\ k.pc = "read_file"
  /\ running \in {0, t}
  /\ store' = o.store
  /\ tasks' = [tasks EXCEPT ![t] =
                 [Awaited(k, "read_file", o.res.ok)
                    EXCEPT !.content = o.res.bytes, !.res = o.res,
                           !.pc = IF o.res.ok THEN "create_file" ELSE "return",
                           !.read_after =
                              {u \in TaskIds : "delete_file" \in tasks[u].tried}]]
  /\ running' = Yield(t, "read_file")
  /\ UNCHANGED <<shared_files, cwd, ret, issued, revoked, jendrix, signer>>

\* let file_info = self.create_file(destination, content).await?;
move_create_file(t, f) ==
  LET k == tasks[t]
      o == create_file_op(store, k.path2, k.content, Backend(f)) IN
  /\ k.op = "move_file" /\ k.pc = "create_file"
  /\ running \in {0, t}
  /\ store' = o.store
  /\ tasks' = [tasks EXCEPT ![t] =
                 [Awaited(k, "create_file", o.res.ok)
                    EXCEPT !.info = o.res.info, !.res = o.res,
                           !.pc = IF o.res.ok THEN "delete_file" ELSE "return"]]
  /\ running' = Yield(t, "create_file")
  /\ UNCHANGED <<shared_files, cwd, ret, issued, revoked, jendrix, signer>>

\* self.delete_file(source).await?; Ok(file_info)
move_delete_file(t, f) ==
  LET k == tasks[t]
      o == delete_file_op(store, k.path, Backend(f)) IN
  /\ k.op = "move_file" /\ k.pc = "delete_file"
  /\ running \in {0, t}
  /\ store' = o.store
  /\ tasks' = [tasks EXCEPT ![t] =
                 [Awaited(k, "delete_file", o.res.ok)
                    EXCEPT !.res = IF o.res.ok THEN InfoRes(k.info) ELSE o.res,
                           !.pc = "return"]]
  /\ running' = Yield(t, "delete_file")
  /\ UNCHANGED <<shared_files, cwd, ret, issued, revoked, jendrix, signer>>

call_serve_shared_file(t, req) ==
  /\ running = 0
  /\ tasks[t].op = "none"
  /\ tasks' = [tasks EXCEPT ![t] =
                 Task("serve_shared_file", "resolve", <<>>, <<>>, req)]
  /\ running' = t
  /\ UNCHANGED <<explorer, jendrix, signer>>

\* the scan of the registry, the policy and the headers: no await
serve_resolve(t) ==
  \E order \in IterOrders(shared_files) :
    LET k == tasks[t]
        o == ServeResolve(shared_files, order, k.req, store) IN
    /\ k.op = "serve_shared_file" /\ k.pc = "resolve"
    /\ running = t
    /\ tasks' = [tasks EXCEPT ![t] =
                   IF o.path = <<>>
                   THEN [k EXCEPT !.res = o.res, !.pc = "return"]
                   ELSE [k EXCEPT !.path = o.path, !.pc = "read_file"]]
    /\ UNCHANGED <<explorer, running, jendrix, signer>>

\* return self.read_file(path.clone()).await;
serve_read_file(t, f) ==
  LET k == tasks[t]
      o == read_file_op(store, k.path, Backend(f)) IN
  /\ k.op = "serve_shared_file" /\ k.pc = "read_file"
  /\ running \in {0, t}
  /\ store' = o.store
  /\ tasks' = [tasks EXCEPT ![t] =
                 [Awaited(k, "read_file", o.res.ok)
                    EXCEPT !.res = [o.res EXCEPT !.headers = ServeHeaders(k.path),
                                                 !.read = k.path],
                           !.pc = "return"]]
  /\ running' = Yield(t, "read_file")
  /\ UNCHANGED <<shared_files, cwd, ret, issued, revoked, jendrix, signer>>

\* unshare_file has no await: it is called and returns in one poll
call_unshare_file(t, path) ==
  LET o == unshare_file_op(shared_files, path) IN
  /\ running = 0
  /\ tasks[t].op = "none"
  /\ shared_files' = o.shared
  /\ revoked' = revoked \cup {path}
  /\ tasks' = Returned([tasks EXCEPT ![t] =
                          [Task("unshare_file", "return", path, <<>>, None)
                             EXCEPT !.res = o.res]], t)
  /\ UNCHANGED <<store, cwd, ret, issued, running, jendrix, signer>>

\* the handler of task t returns its result
task_return(t) ==
  /\ tasks[t].op # "none" /\ tasks[t].pc = "return"
  /\ running \in {0, t}
  /\ tasks' = Returned(tasks, t)
  /\ running' = 0
  /\ UNCHANGED <<explorer, jendrix, signer>>

(***************************************************************************)
(* The jendrix-tune process: one action for each handler.  A handler that   *)
(* takes &mut self is followed by the save of SaveOptions::OnDiff.  The     *)
(* record of a call with an f32 argument keeps the argument (arg).          *)
(***************************************************************************)
get_status ==
  /\ jret = JIdle
  /\ jret' = JCall("get_status", get_status_op(app_state))
  /\ saved_state' = SaveOnDiff(app_state, saved_state)
  /\ UNCHANGED <<app_state, explorer, overlap, signer>>

set_key(key) ==
  /\ jret = JIdle
  /\ app_state' = set_key_op(app_state, key)
  /\ saved_state' = SaveOnDiff(app_state', saved_state)
  /\ jret' = JCall("set_key", NoStatus)
  /\ UNCHANGED <<explorer, overlap, signer>>

set_scale(scale) ==
  /\ jret = JIdle
  /\ app_state' = set_scale_op(app_state, scale)
  /\ saved_state' = SaveOnDiff(app_state', saved_state)
  /\ jret' = JCall("set_scale", NoStatus)
  /\ UNCHANGED <<explorer, overlap, signer>>

set_retune_speed(speed) ==
  /\ jret = JIdle
  /\ app_state' = set_retune_speed_op(app_state, speed)
  /\ saved_state' = SaveOnDiff(app_state', saved_state)
  /\ jret' = JCall("set_retune_speed", NoStatus) @@ [arg |-> speed]
  /\ UNCHANGED <<explorer, overlap, signer>>

set_humanize(amount) ==
  /\ jret = JIdle
  /\ app_state' = set_humanize_op(app_state, amount)
  /\ saved_state' = SaveOnDiff(app_state', saved_state)
  /\ jret' = JCall("set_humanize", NoStatus) @@ [arg |-> amount]
  /\ UNCHANGED <<explorer, overlap, signer>>

set_mix(mix) ==
  /\ jret = JIdle
  /\ app_state' = set_mix_op(app_state, mix)
  /\ saved_state' = SaveOnDiff(app_state', saved_state)
  /\ jret' = JCall("set_mix", NoStatus) @@ [arg |-> mix]
  /\ UNCHANGED <<explorer, overlap, signer>>

set_formant_preserve(enabled) ==
  /\ jret = JIdle
  /\ app_state' = set_formant_preserve_op(app_state, enabled)
  /\ saved_state' = SaveOnDiff(app_state', saved_state)
  /\ jret' = JCall("set_formant_preserve", NoStatus)
  /\ UNCHANGED <<explorer, overlap, signer>>

set_bypass(bypass) ==
  /\ jret = JIdle
  /\ app_state' = set_bypass_op(app_state, bypass)
  /\ saved_state' = SaveOnDiff(app_state', saved_state)
  /\ jret' = JCall("set_bypass", NoStatus)
  /\ UNCHANGED <<explorer, overlap, signer>>

update_all_params(params) ==
  /\ jret = JIdle
  /\ app_state' = update_all_params_op(app_state, params)
  /\ saved_state' = SaveOnDiff(app_state', saved_state)
  /\ jret' = JCall("update_all_params", NoStatus) @@ [arg |-> params]
  /\ UNCHANGED <<explorer, overlap, signer>>

\* the requests of the test process (jendrix-tune-test): increment_counter
\* sends IncrementCounter(amount), get_messages sends GetMessages.  A request
\* that names no handler is not dispatched: no handler runs, the state is
\* left alone and no Ok(..) is answered.
TesterRequests == {"IncrementCounter", "GetMessages"}

tester_request(name, amount) ==
  /\ jret = JIdle
  /\ name \notin Handlers
  /\ jret' = JCall(name, NoStatus) @@ [arg |-> amount, handled |-> FALSE]
  /\ UNCHANGED <<app_state, saved_state, explorer, overlap, signer>>

\* the process stops and is started again: the saved state is loaded and
\* the #[init] handler runs.  The call record keeps the Status of the
\* process that stopped.
restart_tune ==
  /\ app_state' = StartTune(saved_state)
  /\ jret' = JCall("initialize", get_status_op(app_state))
  /\ UNCHANGED <<saved_state, explorer, overlap, signer>>

respond_tune ==
  /\ jret # JIdle
  /\ jret' = JIdle
  /\ UNCHANGED <<app_state, saved_state, explorer, overlap, signer>>

\* the arguments the handlers of jendrix-tune are called with; the f32
\* arguments lie below, in and above the range 0.0 to 1.0
KeyInputs == {"C", "FSharp"}
F32Inputs == {0 - 1, 0, 5, 11}
ParamInputs ==
  { <<"FSharp", "Minor", 0 - 1, 5, 11, FALSE, TRUE>>,
    <<"C", "Major", 0, 10, 5, TRUE, FALSE>> }

NextTune ==
  \/ get_status
  \/ \E key \in KeyInputs : set_key(key)
  \/ \E scale \in Scale : set_scale(scale)
  \/ \E speed \in F32Inputs : set_retune_speed(speed)
  \/ \E amount \in F32Inputs : set_humanize(amount)
  \/ \E mix \in F32Inputs : set_mix(mix)
  \/ \E enabled \in BOOLEAN : set_formant_preserve(enabled)
  \/ \E bypass \in BOOLEAN : set_bypass(bypass)
  \/ \E params \in ParamInputs : update_all_params(params)
  \/ \E name \in TesterRequests, amount \in 1..2 : tester_request(name, amount)
  \/ restart_tune
  \/ respond_tune

SpecTune == Init /\ [][NextTune]_vars

\* the handlers of the file operations
FileOps ==
  \/ \E path \in PathInputs, content \in Contents, f \in 0..3 : create_file(path, content, f)
  \/ \E path \in PathInputs, f \in 0..2 : read_file(path, f)
  \/ \E path \in PathInputs, content \in Contents, f \in 0..3 : update_file(path, content, f)
  \/ \E path \in PathInputs, f \in 0..1 : delete_file(path, f)
  \/ \E path \in PathInputs, f \in 0..1 : create_directory(path, f)
  \/ \E path \in PathInputs, f \in 0..1 : delete_directory(path, f)
  \/ \E path \in {PathAB}, filename \in {<<"a">>}, content \in Contents, f \in 0..3 :
        upload_file(path, filename, content, f)
  \/ \E source \in PathInputs, destination \in PathInputs, f \in 0..6 :
        move_file(source, destination, f)
  \/ \E source \in PathInputs, destination \in PathInputs, f \in 0..5 :
        copy_file(source, destination, f)

\* the handlers of the share registry and the share gateway
ShareOps ==
  \/ \E path \in PathInputs, auth \in AuthScheme : share_file(path, auth)
  \/ \E path \in PathInputs : unshare_file(path)
  \/ \E path \in PathInputs : get_share_link(path)
  \/ \E req \in RequestPaths, f \in 0..2 : serve_shared_file(req, f)

\* the handlers of the current directory
CwdOps ==
  \/ get_current_directory
  \/ \E path \in CwdInputs : set_current_directory(path)

\* the handler of the directory listing
ListOps ==
  \E path \in ListInputs, fails \in FailSets, ord \in ReadOrders :
     list_directory(path, fails, ord)

\* the whole process
Next ==
  \/ FileOps \/ ShareOps \/ CwdOps \/ ListOps
  \/ \E drive_ok \in BOOLEAN : restart(drive_ok)
  \/ respond

Spec == Init /\ [][Next]_vars

\* the start in which create_drive succeeded.  The specifications whose
\* handlers neither read nor write the current directory start here.
InitHome == Init /\ cwd = HomePath

\* the file operations alone: the registry and the current directory, which
\* no file operation reads or writes, stay as Init leaves them
NextFiles == FileOps \/ respond

SpecFiles == InitHome /\ [][NextFiles]_vars

\* the registry and the gateway, over a store in which the two top-level
\* files are created and overwritten
NextShare ==
  \/ ShareOps
  \/ \E path \in {PathAB, PathBA}, content \in Contents, f \in 0..3 :
        create_file(path, content, f)
  \/ respond

SpecShare == InitHome /\ [][NextShare]_vars

\* the registry and the current directory across restarts of the process,
\* with one file that is shared and served
NextRestart ==
  \/ \E path \in {PathAB, PathBA}, auth \in AuthScheme : share_file(path, auth)
  \/ unshare_file(PathAB)
  \/ get_share_link(PathAB)
  \/ \E f \in 0..1 :
        serve_shared_file(Some(SharedPrefix \o derive_share_id(PathAB)), f)
  \/ \E content \in Contents : create_file(PathAB, content, 0)
  \/ get_current_directory
  \/ \E path \in {<<"/">>, PathAB} : set_current_directory(path)
  \/ \E drive_ok \in BOOLEAN : restart(drive_ok)
  \/ respond

SpecRestart == Init /\ [][NextRestart]_vars

\* the gateway over shared paths whose file names differ in their extension
NextHeaders ==
  \/ \E path \in ExtPaths, auth \in AuthScheme : share_file(path, auth)
  \/ \E path \in ExtPaths : unshare_file(path)
  \/ \E path \in ExtPaths, f \in 0..1 :
        serve_shared_file(Some(SharedPrefix \o derive_share_id(path)), f)
  \/ respond

SpecHeaders == InitHome /\ [][NextHeaders]_vars

\* one file content of every length
ListContents == {c \in Contents : \A i \in DOMAIN c : c[i] = 1}

\* the directory listing, over a store in which files and directories are
\* created at every depth
NextList ==
  \/ ListOps
  \/ \E path \in Nodes, content \in ListContents : create_file(path, content, 0)
  \/ \E path \in {PathAB, PathBA, PathABA} : create_directory(path, 0)
  \/ respond

SpecList == InitHome /\ [][NextList]_vars

\* overlapping calls: a file in a directory is created, shared, moved to two
\* destinations, served and unshared
MoveSource == PathABA
MoveDestinations == {PathABB, PathBA}

NextOverlap ==
  \/ create_directory(PathAB, 0)
  \/ \E content \in ListContents \ {<<>>} : create_file(MoveSource, content, 0)
  \/ share_file(MoveSource, "Public")
  \/ \E t \in TaskIds, destination \in MoveDestinations :
        call_move_file(t, MoveSource, destination)
  \/ \E t \in TaskIds, f \in 0..1 : move_read_file(t, f)
  \/ \E t \in TaskIds, f \in 0..1 : move_create_file(t, f)
  \/ \E t \in TaskIds, f \in 0..1 : move_delete_file(t, f)
  \/ \E t \in TaskIds :
        call_serve_shared_file(t, Some(SharedPrefix \o derive_share_id(MoveSource)))
  \/ \E t \in TaskIds : serve_resolve(t)
  \/ \E t \in TaskIds, f \in 0..1 : serve_read_file(t, f)
  \/ \E t \in TaskIds : call_unshare_file(t, MoveSource)
  \/ \E t \in TaskIds : task_return(t)
  \/ respond

SpecOverlap == InitHome /\ [][NextOverlap]_vars

\* the registry and the file operations on the same two paths
NextIndep ==
  \/ \E path \in {PathAB, PathBA}, auth \in AuthScheme : share_file(path, auth)
  \/ \E path \in {PathAB, PathBA} : unshare_file(path)
  \/ \E path \in {PathAB, PathBA} : get_share_link(path)
  \/ \E f \in 0..1 :
        serve_shared_file(Some(SharedPrefix \o derive_share_id(PathAB)), f)
  \/ \E path \in {PathAB, PathBA}, content \in ListContents :
        create_file(path, content, 0)
  \/ \E content \in ListContents, f \in 0..1 : update_file(PathAB, content, f)
  \/ \E f \in 0..1 : delete_file(PathAB, f)
  \/ \E f \in 0..1 : delete_directory(PathBA, f)
  \/ \E f \in {0, 6} : move_file(PathAB, PathBA, f)
  \/ \E f \in {0, 5} : copy_file(PathBA, PathAB, f)
  \/ respond

SpecIndep == InitHome /\ [][NextIndep]_vars

(***************************************************************************)
(* The sign process: its two local handlers.                               *)
(***************************************************************************)
sign(source, message, net) ==
  LET o == sign_op(source, message, net) IN
  /\ sret = SIdle
  /\ sret' = SCall("sign", source, message,
                   IF o.res.ok THEN o.res.bytes ELSE <<>>, o.res)
             @@ [blob |-> o.blob]
  /\ sigs' = IF o.res.ok
             THEN sigs \cup {Grant(source, message, o.res.bytes)}
             ELSE sigs
  /\ UNCHANGED <<explorer, jendrix, overlap>>

\* the signatures a caller can present: those handed out, and a forged one
Presentable == {g.signature : g \in sigs} \cup {Forged}

verify(source, message, signature, net) ==
  LET o == verify_op(source, message, signature, net) IN
  /\ sret = SIdle
  /\ signature \in Presentable
  /\ sret' = SCall("verify", source, message, signature, o.res)
             @@ [blob |-> o.blob]
  /\ UNCHANGED <<sigs, explorer, jendrix, overlap>>

\* the response of the sign process is sent
sign_respond ==
  /\ sret # SIdle
  /\ sret' = SIdle
  /\ UNCHANGED <<sigs, explorer, jendrix, overlap>>

\* every signature of the signer for the callers' messages, and a forged one
Signatures ==
  {NetSign(SignAddress, make_message(source, message)) :
     source \in Sources, message \in Messages} \cup {Forged}

NextSign ==
  \/ \E source \in Sources, message \in Messages, net \in SignAnswers :
        sign(source, message, net)
  \/ \E source \in Sources, message \in Messages,
        signature \in Signatures, net \in VerifyAnswers :
        verify(source, message, signature, net)
  \/ sign_respond

SpecSign == InitHome /\ [][NextSign]_vars

TypeOK ==
  /\ DOMAIN store = Nodes
  /\ DOMAIN shared_files \subseteq PathInputs \cup ExtPaths
  /\ \A p \in DOMAIN shared_files : shared_files[p] \in AuthScheme
  /\ \A p \in Nodes : store[p].kind # "none" => KindOf(store, ParentOf(p)) = "dir"

(***************************************************************************)
(* Properties.                                                             *)
(***************************************************************************)
\* what read_file(p) answers on store st when the backend answers every call
ReadOf(st, p) == read_file_op(st, p, Backend(0)).res

\* the id a serve request carries, as an Option
RequestedId(r) ==
  IF r.req.some /\ IsPrefix(SharedPrefix, r.req.v)
  THEN Some(SubSeq(r.req.v, Len(SharedPrefix) + 1, Len(r.req.v)))
  ELSE None

\* the registered paths whose id is the requested one
Candidates(r) ==
  {p \in DOMAIN shared_files :
     RequestedId(r).some /\ derive_share_id(p) = RequestedId(r).v}

AccessDenied(r) ==
  /\ ~r.res.ok
  /\ r.res.err = "Access denied: Private file"
  /\ r.res.bytes = <<>>

\* C1 as stated: a serve request whose id is the id of a path registered as
\* Private is answered with access-denied and no bytes, whatever else is
\* registered, paths with the same id included.
C1_PrivateDenied_AnyRegistry ==
  (ret.op = "serve_shared_file"
     /\ \E p \in Candidates(ret) : shared_files[p] = "Private")
  => AccessDenied(ret)

\* C1 amended: a serve request whose id is the id of a path registered as
\* Private is answered with access-denied and no bytes, whatever else is
\* registered, provided no path registered as Public has the same id.
C1_PrivateDenied ==
  (ret.op = "serve_shared_file"
     /\ (\E p \in Candidates(ret) : shared_files[p] = "Private")
     /\ ~(\E q \in Candidates(ret) : shared_files[q] = "Public"))
  => AccessDenied(ret)

\* two Private files with one id, a Public path with another id, and the
\* shared id requested
C1_Witness ==
  /\ ret.op = "serve_shared_file"
  /\ Candidates(ret) = {PathAB, PathBA}
  /\ shared_files[PathAB] = "Private" /\ shared_files[PathBA] = "Private"
  /\ PathABA \in DOMAIN shared_files /\ shared_files[PathABA] = "Public"
  /\ store[PathAB].kind = "file" /\ store[PathBA].kind = "file"
  /\ store[PathBA].data # <<>>
  /\ AccessDenied(ret)

\* C2: the bytes a serve request returns are the content read at a path that
\* is registered as Public and whose id is the requested one.
C2_ServedIsPublicMatch ==
  (ret.op = "serve_shared_file" /\ ret.res.ok)
  => /\ ret.res.read \in Candidates(ret)
     /\ shared_files[ret.res.read] = "Public"
     /\ ReadOf(store, ret.res.read).ok
     /\ ret.res.bytes = ReadOf(store, ret.res.read).bytes

\* a Public file is served while a Private file with the same id and other
\* content and a Public path with another id are registered too
C2_Witness ==
  /\ ret.op = "serve_shared_file" /\ ret.res.ok
  /\ ret.res.read = PathBA /\ ret.res.bytes # <<>>
  /\ DOMAIN shared_files = {PathAB, PathBA, PathABA}
  /\ shared_files[PathAB] = "Private" /\ shared_files[PathABA] = "Public"
  /\ store[PathAB].kind = "file" /\ store[PathAB].data # ret.res.bytes

\* C10: a serve request without a path or with a path that does not start
\* with /shared/ fails as malformed, one whose id no registered path has
\* fails as not found; neither issues a backend call or changes the
\* registry or the store.
C10_MalformedAndNotFound ==
  [][ret'.op = "serve_shared_file" =>
       /\ ~RequestedId(ret').some =>
            /\ ~ret'.res.ok
            /\ ret'.res.err = (IF ret'.req.some THEN "Invalid shared file path"
                                                ELSE "No request path provided")
            /\ ret'.calls = 0
            /\ UNCHANGED <<store, shared_files>>
       /\ (RequestedId(ret').some
             /\ ~\E p \in DOMAIN shared_files :
                    derive_share_id(p) = RequestedId(ret').v) =>
            /\ ~ret'.res.ok
            /\ ret'.res.err = "File not found or not shared"
            /\ ret'.calls = 0
            /\ UNCHANGED <<store, shared_files>>]_vars

\* the id of an unregistered file is requested while another path is shared
C10_Witness ==
  /\ ret.op = "serve_shared_file"
  /\ ret.req = Some(SharedPrefix \o derive_share_id(PathAB))
  /\ store[PathAB].kind = "file"
  /\ DOMAIN shared_files = {PathABA}
  /\ ret.res.err = "File not found or not shared"

\* C3 as stated: after a successful move_file(src, dst), for any src and
\* dst, distinct or not, read(dst) returns the content src had and read(src)
\* fails with not-found.
C3_MoveRelocates_AnyPair ==
  [][(ret'.op = "move_file" /\ ret'.res.ok) =>
       /\ ReadOf(store', ret'.path2).ok
       /\ ReadOf(store', ret'.path2).bytes = store[ret'.path].data
       /\ ~ReadOf(store', ret'.path).ok
       /\ ReadOf(store', ret'.path).cause = "NotFound"]_vars

\* C3 amended: after a successful move_file(src, dst) with src and dst
\* distinct, read(dst) returns the content src had and read(src) fails with
\* not-found.
C3_MoveRelocates ==
  [][(ret'.op = "move_file" /\ ret'.res.ok /\ ret'.path # ret'.path2) =>
       /\ KindOf(store, ret'.path) = "file"
       /\ ReadOf(store', ret'.path2).ok
       /\ ReadOf(store', ret'.path2).bytes = store[ret'.path].data
       /\ ~ReadOf(store', ret'.path).ok
       /\ ReadOf(store', ret'.path).cause = "NotFound"]_vars

\* a file with content was moved to another path
C3_Witness ==
  /\ ret.op = "move_file" /\ ret.res.ok
  /\ ret.path = PathAB /\ ret.path2 = PathBA
  /\ store[PathBA].kind = "file" /\ store[PathBA].data # <<>>
  /\ store[PathAB].kind = "none"

\* C4: when move_file fails in its delete step, it returns an error and
\* src and dst both read as the content src had before the call.
C4_MoveDeleteFails ==
  [][(ret'.op = "move_file" /\ ret'.res.err = "Failed to delete file") =>
       /\ ~ret'.res.ok
       /\ KindOf(store, ret'.path) = "file"
       /\ ReadOf(store', ret'.path).ok
       /\ ReadOf(store', ret'.path).bytes = store[ret'.path].data
       /\ ReadOf(store', ret'.path2).ok
       /\ ReadOf(store', ret'.path2).bytes = store[ret'.path].data]_vars

\* the delete step of a move between two paths failed: the content is at both
C4_Witness ==
  /\ ret.op = "move_file" /\ ret.res.err = "Failed to delete file"
  /\ ret.path = PathAB /\ ret.path2 = PathBA
  /\ ret.calls = 6
  /\ store[PathAB].kind = "file" /\ store[PathAB].data # <<>>
  /\ store[PathBA] = store[PathAB]

\* C5: after a successful copy_file(src, dst), read(dst) returns the content
\* src had, read(src) returns it as before, and every node of the store
\* is still there.
C5_CopyKeepsSource ==
  [][(ret'.op = "copy_file" /\ ret'.res.ok) =>
       /\ KindOf(store, ret'.path) = "file"
       /\ ReadOf(store', ret'.path2).ok
       /\ ReadOf(store', ret'.path2).bytes = store[ret'.path].data
       /\ ReadOf(store', ret'.path) = ReadOf(store, ret'.path)
       /\ ReadOf(store', ret'.path).ok
       /\ \A p \in Nodes : store'[p].kind = "none" => store[p].kind = "none"]_vars

\* a file with content was copied to another path
C5_Witness ==
  /\ ret.op = "copy_file" /\ ret.res.ok
  /\ ret.path = PathBA /\ ret.path2 = PathAB
  /\ store[PathBA].kind = "file" /\ store[PathBA].data # <<>>
  /\ store[PathAB] = store[PathBA]

\* C6: after a successful create_file(path, bytes) or update_file(path,
\* bytes), read_file(path) returns exactly bytes, and the FileInfo returned
\* has size = the number of bytes and is_directory = false.
C6_WriteThenRead ==
  [][(ret'.op \in {"create_file", "update_file"} /\ ret'.res.ok) =>
       \A content \in Contents, f \in 0..3 :
         (create_file(ret'.path, content, f) \/ update_file(ret'.path, content, f)) =>
           /\ ReadOf(store', ret'.path) = BytesRes(content)
           /\ ret'.res.info.path = ret'.path
           /\ ret'.res.info.size = Len(content)
           /\ ret'.res.info.is_directory = FALSE]_vars

\* a file was updated with less content than it had
C6_Witness ==
  /\ ret.op = "update_file" /\ ret.res.ok
  /\ ret.oldlen > ret.res.info.size
  /\ store[ret.path].data = <<>>
  /\ ReadOf(store, ret.path).bytes = <<>>

IsSuffix(suf, str) ==
  Len(str) >= Len(suf) /\ SubSeq(str, Len(str) - Len(suf) + 1, Len(str)) = suf

\* C7: get_share_link(p) returns a link exactly when p has a registry entry,
\* which is exactly when the last share_file or unshare_file call for p was a
\* share_file; the link is the one that share_file returned and ends in the
\* hex digest of p.
C7_LookupLink ==
  ret.op = "get_share_link" =>
    /\ ret.res.ok
    /\ ret.res.some <=> ret.path \in DOMAIN shared_files
    /\ ret.res.some <=> issued[ret.path] # <<>>
    /\ ret.res.some =>
         /\ ret.res.str = issued[ret.path]
         /\ IsSuffix(LowerHex(Md5Compute(ret.path)), ret.res.str)

\* the link of a shared path is looked up while a path with the same id is
\* not shared
C7_Witness ==
  /\ ret.op = "get_share_link" /\ ret.res.some
  /\ ret.path = PathAB
  /\ DOMAIN shared_files = {PathAB, PathABA}
  /\ ret.res.str = issued[PathAB]

\* C8: share_file(p, b) leaves p registered with policy b, adds no other
\* entry, leaves the entries of the other paths as they were, and returns
\* the link the earlier share_file of p returned.
C8_ShareUpsert ==
  [][ret'.op = "share_file" =>
       /\ ret'.res.ok
       /\ DOMAIN shared_files' = DOMAIN shared_files \cup {ret'.path}
       /\ shared_files'[ret'.path] = ret'.auth
       /\ \A q \in DOMAIN shared_files \ {ret'.path} :
            shared_files'[q] = shared_files[q]
       /\ issued[ret'.path] # <<>> => ret'.res.str = issued[ret'.path]
       /\ ret'.path \in DOMAIN shared_files <=> issued[ret'.path] # <<>>]_vars

\* a path shared as Private is shared again as Public, others are registered
C8_Witness ==
  /\ ret.op = "share_file"
  /\ ret.old = "Private" /\ ret.auth = "Public"
  /\ shared_files[ret.path] = "Public"
  /\ DOMAIN shared_files = PathInputs

\* C9: unshare_file(p) returns true exactly when p had an entry, removes
\* that entry and no other, and changes nothing when p had none.
C9_Unshare ==
  [][ret'.op = "unshare_file" =>
       /\ ret'.res.ok
       /\ ret'.res.flag <=> ret'.path \in DOMAIN shared_files
       /\ DOMAIN shared_files' = DOMAIN shared_files \ {ret'.path}
       /\ \A q \in DOMAIN shared_files' : shared_files'[q] = shared_files[q]
       /\ ret'.path \notin DOMAIN shared_files => shared_files' = shared_files
       /\ store' = store]_vars

\* a path was unshared while a path with the same id stays registered
C9_Witness ==
  /\ ret.op = "unshare_file" /\ ret.res.flag
  /\ ret.path = PathAB /\ ret.old = "Public"
  /\ DOMAIN shared_files = {PathBA, PathABA}

\* C11: a serve request for the id of a path p, made after unshare_file(p)
\* returned and with no share_file(p, _) since, while no other registered
\* path has that id, returns the not-found error and none of p's content.
C11_Revoked ==
  \A p \in revoked :
    (ret.op = "serve_shared_file"
       /\ RequestedId(ret) = Some(derive_share_id(p))
       /\ Candidates(ret) \subseteq {p})
    => /\ ~ret.res.ok
       /\ ret.res.err = "File not found or not shared"
       /\ ret.res.bytes = <<>>
       /\ ret.calls = 0

\* the id of an unshared file with content is requested while a path with
\* another id is still shared as Public
C11_Witness ==
  /\ ret.op = "serve_shared_file"
  /\ PathAB \in revoked
  /\ RequestedId(ret) = Some(derive_share_id(PathAB))
  /\ store[PathAB].kind = "file" /\ store[PathAB].data # <<>>
  /\ DOMAIN shared_files = {PathABA} /\ shared_files[PathABA] = "Public"
  /\ ret.res.err = "File not found or not shared"

\* the directory a listing lists, and the nodes one and two levels below it
ListRoot(r) == DirOf(VfsPathOf(r.path))
Level1(st, r) == ChildrenOf(st, ListRoot(r))
Level2(st, r) ==
  UNION {ChildrenOf(st, d) : d \in {q \in Level1(st, r) : st[q].kind = "dir"}}

\* the backend calls of a listing that are directory reads of the path d
ReadsOf(r, d) ==
  SelectSeq(r.res.log, LAMBDA c : c.action = "ReadDir" /\ c.path = d)

\* the read that counts the children of the level-1 directory d succeeded
CountReadOk(r, d) == ReadsOf(r, d) # <<>> /\ ReadsOf(r, d)[1].ok

\* the sizes of the entries of a listing by depth and type; a level-1
\* directory has the size dirSize(d)
SizesByDepth(r, dirSize(_)) ==
  \A i \in DOMAIN r.res.entries :
    LET e == r.res.entries[i] IN
    /\ e.path \in Level1(store, r) \cup Level2(store, r)
    /\ e.is_directory <=> store[e.path].kind = "dir"
    /\ (e.path \in Level1(store, r) /\ store[e.path].kind = "file")
         => e.size = Len(store[e.path].data)
    /\ (e.path \in Level1(store, r) /\ store[e.path].kind = "dir")
         => e.size = dirSize(e.path)
    /\ (e.path \in Level2(store, r) /\ store[e.path].kind = "file")
         => e.size = Len(store[e.path].data)
    /\ (e.path \in Level2(store, r) /\ store[e.path].kind = "dir")
         => e.size = 0

\* C12 as stated: in the result of list_directory a level-1 file has its
\* byte size, a level-1 directory the number of its immediate children, a
\* level-2 file its byte size and a level-2 directory size 0.
C12_SizeByDepth_AnyRead ==
  (ret.op = "list_directory" /\ ret.res.ok)
  => SizesByDepth(ret, LAMBDA d : Cardinality(ChildrenOf(store, d)))

\* C12 amended: as stated, but a level-1 directory has the number of its
\* immediate children as its size when the read that counts them succeeds,
\* and size 0 when that read fails.
C12_SizeByDepth ==
  (ret.op = "list_directory" /\ ret.res.ok)
  => SizesByDepth(ret, LAMBDA d : IF CountReadOk(ret, d)
                                  THEN Cardinality(ChildrenOf(store, d))
                                  ELSE 0)

\* a listing of the root: a level-1 file with a byte, a level-1 directory
\* with two children and fewer bytes than children, a level-2 directory that
\* is not empty
C12_Witness ==
  /\ ret.op = "list_directory" /\ ret.res.ok /\ ret.path = <<"/">>
  /\ \A i \in DOMAIN ret.res.log : ret.res.log[i].ok
  /\ store[PathBA].kind = "file" /\ Len(store[PathBA].data) = 1
  /\ store[PathABA].kind = "dir" /\ store[PathABAB].kind = "file"
  /\ Len(store[PathABAB].data) = 1
  /\ store[PathABB].kind = "file" /\ store[PathABB].data = <<>>
  /\ \E i, j, k \in DOMAIN ret.res.entries :
       /\ ret.res.entries[i].path = PathAB /\ ret.res.entries[i].size = 2
       /\ ret.res.entries[j].path = PathABA /\ ret.res.entries[j].size = 0
       /\ ret.res.entries[k].path = PathBA /\ ret.res.entries[k].size = 1

\* the nodes below the nodes of Level2: depth 3 and more
Deeper(st, r) == {q \in DOMAIN st : \E d \in Level2(st, r) : IsDescendant(q, d)}

\* C13: list_directory(root) returns only entries that are children or
\* grandchildren of root and reads only root and the directories that are
\* immediate children of root: no level-2 directory is read and no entry of
\* depth 3 or more is returned.
C13_TwoLevels ==
  ret.op = "list_directory" =>
    /\ \A i \in DOMAIN ret.res.entries :
         /\ ret.res.entries[i].path \in Level1(store, ret) \cup Level2(store, ret)
         /\ ret.res.entries[i].path \notin Deeper(store, ret)
    /\ \A k \in DOMAIN ret.res.log :
         ret.res.log[k].action = "ReadDir" =>
           \/ k = 1 /\ ret.res.log[k].path = VfsPathOf(ret.path)
           \/ /\ ret.res.log[k].path \in Level1(store, ret)
              /\ store[ret.res.log[k].path].kind = "dir"
              /\ ret.res.log[k].path \notin Level2(store, ret)

\* a listing of the root of a store with a file at depth 3: its directory,
\* at level 2, is returned
C13_Witness ==
  /\ ret.op = "list_directory" /\ ret.res.ok /\ ret.path = <<"/">>
  /\ store[PathABA].kind = "dir" /\ store[PathABAB].kind = "file"
  /\ PathABAB \in Deeper(store, ret)
  /\ \E i \in DOMAIN ret.res.entries : ret.res.entries[i].path = PathABA
  /\ ret.calls = 3

\* every backend call of the listing succeeded
AllCallsOk(r) == \A k \in DOMAIN r.res.log : r.res.log[k].ok

\* the place of the node q in the order the store answers reads in
PosIn(ord, q) == CHOOSE i \in DOMAIN ord : ord[i] = q

\* C14: when all store calls succeed, list_directory(root) returns one entry
\* for each immediate child of root, in store-read order, each directory
\* among them immediately followed by one entry for each of its immediate
\* children, in store-read order, and nothing else; an empty root yields the
\* empty sequence and no error.
C14_FlattenedSequence ==
  (ret.op = "list_directory" /\ AllCallsOk(ret)) =>
    LET E == ret.res.entries
        L1 == Level1(store, ret)
        L2 == Level2(store, ret) IN
    /\ ret.res.ok
    /\ {E[i].path : i \in DOMAIN E} = L1 \cup L2
    /\ Len(E) = Cardinality(L1 \cup L2)
    /\ L1 = {} => E = <<>>
    /\ \A i \in DOMAIN E :
         /\ E[i].name = SplitLast(E[i].path, "/")
         /\ E[i].is_directory <=> store[E[i].path].kind = "dir"
         /\ (E[i].path \in L1 /\ store[E[i].path].kind = "dir") =>
              LET n == Cardinality(ChildrenOf(store, E[i].path)) IN
              /\ i + n <= Len(E)
              /\ \A j \in (i + 1)..(i + n) : ParentOf(E[j].path) = E[i].path
    /\ \A i, j \in DOMAIN E :
         (i < j /\ ParentOf(E[i].path) = ParentOf(E[j].path)) =>
           PosIn(ret.ord, E[i].path) < PosIn(ret.ord, E[j].path)

\* a listing of the root in which the store answers /ba before /ab and
\* /ab/b before /ab/a: the two children of /ab follow it, before nothing
\* else
C14_Witness ==
  /\ ret.op = "list_directory" /\ AllCallsOk(ret) /\ ret.path = <<"/">>
  /\ store[PathABA].kind = "dir" /\ store[PathABAB].kind = "file"
  /\ Len(ret.res.entries) = 4
  /\ ret.res.entries[1].path = PathBA /\ ~ret.res.entries[1].is_directory
  /\ ret.res.entries[2].path = PathAB
  /\ ret.res.entries[3].path = PathABB
  /\ ret.res.entries[4].path = PathABA /\ ret.res.entries[4].is_directory

\* the entries of a listing for the node q, and those for the nodes in d
EntriesOf(r, q) == SelectSeq(r.res.entries, LAMBDA e : e.path = q)
EntriesIn(r, d) == SelectSeq(r.res.entries, LAMBDA e : ParentOf(e.path) = d)

\* the level-1 directories of which a read failed during the listing
FailedSubdirs(r) ==
  {d \in Level1(store, r) :
     store[d].kind = "dir" /\ \E k \in DOMAIN ReadsOf(r, d) : ~ReadsOf(r, d)[k].ok}

\* a failed read of the root fails the listing; a listing fails only by the
\* read of the root or by the metadata of a level-1 file, which is then the
\* last call it issued
FailsByRootOrFile(r) ==
  /\ ~r.res.log[1].ok => (~r.res.ok /\ r.res.err = "Failed to read directory")
  /\ ~r.res.ok =>
       \/ ~r.res.log[1].ok
       \/ LET last == r.res.log[Len(r.res.log)] IN
          /\ last.action = "Metadata" /\ ~last.ok
          /\ last.path \in Level1(store, r)
          /\ r.res.err = "Failed to get metadata for"

\* C15 as stated: a failed read of root fails the call; a failed read of a
\* level-1 subdirectory does not: the subdirectory is returned as a
\* directory of size 0, none of its children are returned, and its siblings
\* are returned.
C15_SubdirReadFailure_AnyRead ==
  ret.op = "list_directory" =>
    /\ FailsByRootOrFile(ret)
    /\ ret.res.ok =>
         \A d \in FailedSubdirs(ret) :
           /\ Len(EntriesOf(ret, d)) = 1
           /\ EntriesOf(ret, d)[1].is_directory
           /\ EntriesOf(ret, d)[1].size = 0
           /\ EntriesIn(ret, d) = <<>>
           /\ \A q \in Level1(store, ret) : Len(EntriesOf(ret, q)) = 1

\* C15 amended: a failed read of root fails the call; a level-1
\* subdirectory is read twice and a failed read of it does not fail the
\* call: the subdirectory is returned as a directory, with size 0 when the
\* first read (the count) failed and without any of its children when the
\* second read (the expansion) failed, and its siblings are returned.
C15_SubdirReadFailure ==
  ret.op = "list_directory" =>
    /\ FailsByRootOrFile(ret)
    /\ ret.res.ok =>
         \A d \in FailedSubdirs(ret) :
           /\ Len(ReadsOf(ret, d)) = 2
           /\ Len(EntriesOf(ret, d)) = 1
           /\ EntriesOf(ret, d)[1].is_directory
           /\ ~ReadsOf(ret, d)[1].ok => EntriesOf(ret, d)[1].size = 0
           /\ ~ReadsOf(ret, d)[2].ok => EntriesIn(ret, d) = <<>>
           /\ \A q \in Level1(store, ret) : Len(EntriesOf(ret, q)) = 1

\* both reads of /ab, which has a child, failed: /ab is returned with size 0
\* and without its child, and /ba, read after it, is returned
C15_Witness ==
  /\ ret.op = "list_directory" /\ ret.res.ok /\ ret.path = <<"/">>
  /\ FailedSubdirs(ret) = {PathAB}
  /\ ~ReadsOf(ret, PathAB)[1].ok /\ ~ReadsOf(ret, PathAB)[2].ok
  /\ ChildrenOf(store, PathAB) # {}
  /\ Len(ret.res.entries) = 2
  /\ ret.res.entries[1].path = PathAB /\ ret.res.entries[1].size = 0
  /\ ret.res.entries[2].path = PathBA

\* C16: delete_directory(path) issues one backend request; when it is
\* answered Ok the call returns true, path and every descendant are gone and
\* every other path is unchanged; any other answer and a failed send are
\* returned as an error; no other operation removes more than one node of
\* the store in a call.
C16_DeleteDirectory ==
  [][/\ ret'.op = "delete_directory" =>
          /\ ret'.calls = 1
          /\ ret'.res.ok =>
               /\ ret'.res.flag
               /\ KindOf(store, ret'.path) = "dir"
               /\ \A q \in Nodes :
                    store'[q] = IF q = ret'.path \/ IsDescendant(q, ret'.path)
                                THEN NoNode ELSE store[q]
          /\ ~ret'.res.ok =>
               /\ ret'.res.err \in {"Failed to delete directory",
                                     "Failed to send VFS request"}
               /\ ret'.res.err = "Failed to send VFS request"
                    <=> ret'.res.cause = "Timeout"
     /\ ret'.op # "delete_directory" =>
          Cardinality(Removed(store, store')) <= 1]_vars

\* a directory with a file in it was deleted while a file beside it stays
C16_Witness ==
  /\ ret.op = "delete_directory" /\ ret.res.ok /\ ret.res.flag
  /\ ret.path = PathAB /\ ret.removed = {PathAB, PathABA}
  /\ store[PathBA].kind = "file" /\ store[PathBA].data # <<>>

\* C17: when no file is at path, read_file(path), update_file(path, bytes)
\* and delete_file(path) return an error and leave the store unchanged;
\* neither brings a file into existence.
C17_AbsentFile ==
  [][(ret'.op \in {"read_file", "update_file", "delete_file"}
        /\ KindOf(store, ret'.path) # "file") =>
       /\ ~ret'.res.ok
       /\ ret'.res.err \in {"Failed to open file", "Failed to delete file"}
       /\ store' = store
       /\ KindOf(store', ret'.path) # "file"]_vars

\* update_file was called for a path in an existing directory at which
\* nothing is: it failed and nothing is at the path
C17_Witness ==
  /\ ret.op = "update_file" /\ ~ret.res.ok
  /\ ret.res.err = "Failed to open file" /\ ret.res.cause = "NotFound"
  /\ ret.path = PathABA
  /\ store[PathAB].kind = "dir" /\ store[PathABA].kind = "none"

\* the request paths of the model that start with /shared/
WellFormed == {req \in RequestPaths : req.some /\ IsPrefix(SharedPrefix, req.v)}

\* C18: after a restart of the process, whatever was shared or set before,
\* get_share_link(p) answers none for every p, every well-formed serve
\* request answers not-found, and the current directory is the one init
\* chose: the home drive path, or "/" when creating the drive failed.
C18_NothingSurvivesRestart ==
  [][ret'.op = "init" =>
       /\ \A p \in PathInputs :
            /\ get_share_link_op(shared_files', p).ok
            /\ ~get_share_link_op(shared_files', p).some
       /\ \A req \in WellFormed, f \in 0..2 :
            \A order \in IterOrders(shared_files') :
              LET o == serve_shared_file_op(shared_files', order, req, store',
                                            Backend(f)) IN
              /\ ~o.res.ok
              /\ o.res.err = "File not found or not shared"
       /\ cwd' = IF ret'.res.flag THEN HomePath ELSE <<"/">>
       /\ store' = store]_vars

\* the process was restarted while /ab, a file with content, was shared (its
\* last share_file was not followed by an unshare_file) and the current
\* directory was set to /ab: the registry is empty and the current
\* directory is the home drive
C18_Witness ==
  /\ ret.op = "init" /\ ret.res.flag
  /\ ret.path = PathAB /\ cwd = HomePath
  /\ issued[PathAB] # <<>> /\ issued[PathBA] # <<>>
  /\ store[PathAB].kind = "file" /\ store[PathAB].data # <<>>
  /\ shared_files = EmptyMap

\* the extension of a file name: what follows its last ".", none when the
\* name has no "."
ExtensionOf(filename) ==
  IF LastIndexOf(filename, ".") = 0 THEN None
  ELSE Some(SplitLast(filename, "."))

\* C19: for a matched Public share, serve_shared_file sets Content-Type to
\* the table value of the extension of the file name, and to
\* application/octet-stream when the file name has no extension or one that
\* is not in the table, and Content-Disposition carries the file name, the
\* last segment of the path.
C19_ContentHeaders ==
  (ret.op = "serve_shared_file" /\ ret.res.read # <<>>) =>
    LET filename == SplitLast(ret.res.read, "/")
        ext == ExtensionOf(filename) IN
    /\ shared_files[ret.res.read] = "Public"
    /\ Len(ret.res.headers) = 2
    /\ ret.res.headers[1].name = "Content-Disposition"
    /\ ret.res.headers[1].filename = filename
    /\ ret.res.headers[2].name = "Content-Type"
    /\ ret.res.headers[2].value =
         IF ext.some THEN ContentType(ext.v) ELSE "application/octet-stream"

\* C20: the parameters of jendrix-tune are persisted: what the setters and
\* update_all_params stored is what get_status reports after the process
\* is restarted.
C20_ParamsSurviveRestart ==
  jret.op = "initialize" => get_status_op(app_state) = jret.status

\* the f32 parameters of an AppState, and the f32 arguments of a call
F32Fields(s) == <<s.retune_speed, s.humanize, s.mix>>
InRange(x) == 0 <= x /\ x <= 10
Stored(x) == IF x < 0 THEN 0 ELSE IF x > 10 THEN 10 ELSE x

\* C21: in every state of jendrix-tune (the default state, after initialize,
\* after any sequence of setters and update_all_params) retune_speed,
\* humanize and mix lie in the closed range 0.0 to 1.0; an argument below 0.0
\* is stored as 0.0, one above 1.0 as 1.0, one inside the range unchanged.
C21_ParamsInRange ==
  /\ \A i \in 1..3 : InRange(F32Fields(DefaultAppState)[i])
  /\ \A i \in 1..3 : InRange(F32Fields(app_state)[i])
  /\ \A i \in 1..3 : InRange(F32Fields(saved_state)[i])
  /\ jret.op = "set_retune_speed" => app_state.retune_speed = Stored(jret.arg)
  /\ jret.op = "set_humanize" => app_state.humanize = Stored(jret.arg)
  /\ jret.op = "set_mix" => app_state.mix = Stored(jret.arg)
  /\ jret.op = "update_all_params" =>
        F32Fields(app_state) =
          <<Stored(jret.arg[3]), Stored(jret.arg[4]), Stored(jret.arg[5])>>

\* a bulk update with an argument below, one inside and one above the range
C21_Witness ==
  /\ jret.op = "update_all_params"
  /\ jret.arg[3] < 0 /\ InRange(jret.arg[4]) /\ jret.arg[5] > 10
  /\ F32Fields(app_state) = <<0, jret.arg[4], 10>>

\* C22: the jendrix-tune process keeps a counter and a message log as its
\* test requires: IncrementCounter(n) is answered with Ok(counter), counter
\* not zero, the Status reports the counter, and GetMessages is answered
\* with the log.
C22_CounterAndLog ==
  /\ jret.op = "IncrementCounter" =>
        /\ jret.handled
        /\ "counter" \in DOMAIN get_status_op(app_state)
        /\ get_status_op(app_state).counter # 0
  /\ jret.op = "GetMessages" => jret.handled

\* the serve tasks and the unshare tasks
ServeTasks == {t \in TaskIds : tasks[t].op = "serve_shared_file"}
UnshareTasks == {t \in TaskIds : tasks[t].op = "unshare_file"}

\* serve task s is about to return the bytes of the path it resolved
ReturnsBytes(s) ==
  /\ tasks[s].pc \in {"return", "done"}
  /\ tasks[s].res.ok
  /\ tasks[s].res.read # <<>>

\* unshare task u returned true for the path serve task s resolved, between
\* the call and the return of s
UnsharedBetween(s, u) ==
  /\ u \in tasks[s].overlapped
  /\ tasks[u].path = tasks[s].res.read
  /\ tasks[u].res.flag

MoveTasks == {t \in TaskIds : tasks[t].op = "move_file"}
MovePairs ==
  {m \in MoveTasks \X MoveTasks :
     /\ m[1] # m[2]
     /\ tasks[m[1]].path = tasks[m[2]].path
     /\ tasks[m[1]].path2 # tasks[m[2]].path2}

\* the copy of move task m is committed: its destination holds what it read
Committed(m) ==
  /\ "create_file" \in tasks[m].did
  /\ store[tasks[m].path2] = FileNode(tasks[m].content)

ReadErrors == {"Failed to open file", "Failed to read file"}
CreateErrors ==
  {"Failed to create file", "Failed to write file", "Failed to get metadata"}
ErrOfCall(n) ==
  CASE n = 1 -> "Failed to open file"
    [] n = 2 -> "Failed to read file"
    [] n = 3 -> "Failed to create file"
    [] n = 4 -> "Failed to write file"
    [] n = 5 -> "Failed to get metadata"
    [] OTHER -> "Failed to delete file"

\* what C25 says of a finished move_file or copy_file between the paths the
\* predicate pairs admits; st is the store before the call, st2 the store
\* after it, r the record of the call
StepsInOrder(st, st2, r, pairs(_, _)) ==
  LET last == IF r.op = "move_file" THEN 6 ELSE 5 IN
  /\ r.calls \in 1..last
  /\ r.res.ok => r.calls = last
  /\ ~r.res.ok => r.res.err = ErrOfCall(r.calls)
  /\ (~r.res.ok /\ r.res.err \in ReadErrors) => st2 = st
  /\ (~r.res.ok /\ r.res.err \in CreateErrors /\ r.op = "move_file"
        /\ pairs(r.path, r.path2)) =>
        /\ r.calls <= 5
        /\ st2[r.path] = st[r.path]
  /\ (~r.res.ok /\ r.res.err = "Failed to get metadata") =>
        st2[r.path2] = FileNode(st[r.path].data)

AnyPair(src, dst) == TRUE
DistinctPair(src, dst) == src # dst

\* C25 as stated: in move_file and copy_file each backend step is issued
\* only after the previous one succeeded, the error of the first failing step
\* is returned, nothing is retried or undone; if read(src) fails the store is
\* unchanged, and if create(dst) fails in move_file then delete(src) is never
\* issued and src keeps its content, whatever src and dst are.
C25_StepsInOrder_AnyPair ==
  [][(ret'.op \in {"move_file", "copy_file"} /\ ret.op = "idle") =>
       StepsInOrder(store, store', ret', AnyPair)]_vars

\* C25: the same, where src keeps its content after a failed create(dst) when
\* dst is not src.
C25_StepsInOrder ==
  [][(ret'.op \in {"move_file", "copy_file"} /\ ret.op = "idle") =>
       StepsInOrder(store, store', ret', DistinctPair)]_vars

\* a move between two paths whose create step timed out at the write: the
\* delete was not issued and the source holds its content
C25_Witness ==
  /\ ret.op = "move_file" /\ ~ret.res.ok
  /\ ret.res.err = "Failed to write file" /\ ret.res.cause = "Timeout"
  /\ ret.path = PathAB /\ ret.path2 = PathBA
  /\ ret.calls = 4
  /\ store[PathAB].kind = "file" /\ store[PathAB].data # <<>>
  /\ store[PathBA] = FileNode(<<>>)

\* the handlers of the registry and the handlers of the store C26 names
RegistryOps == {"share_file", "unshare_file", "get_share_link"}
StoreOps ==
  {"create_file", "update_file", "delete_file", "delete_directory",
   "move_file", "copy_file"}

\* the call r is a serve request for the id of p, which is registered as
\* Public and holds no file in st
ServesAbsent(r, p, st) ==
  /\ r.op = "serve_shared_file"
  /\ RequestedId(r) = Some(derive_share_id(p))
  /\ ContainsKey(shared_files, p) /\ shared_files[p] = "Public"
  /\ KindOf(st, p) # "file"

\* what C26 says of the call r that took the store from st to st2 and the
\* registry from m to m2; alone(p) says which registries it speaks of
Independent(r, st, st2, m, m2, alone(_)) ==
  /\ r.op \in RegistryOps => (r.calls = 0 /\ st2 = st /\ r.res.ok)
  /\ r.op \in StoreOps => m2 = m
  /\ \A p \in DOMAIN m :
       (ServesAbsent(r, p, st) /\ alone(p)) =>
          /\ ~r.res.ok
          /\ r.res.err \in {"Failed to open file", "Failed to read file"}

AnyRegistry(p) == TRUE
NoCollision(p) ==
  \A q \in DOMAIN shared_files : derive_share_id(q) = derive_share_id(p) => q = p

\* C26 as stated: share_file, unshare_file and get_share_link issue no store
\* call and succeed whether or not a file exists; the six file operations
\* never change the registry; a serve of a Public p that holds no file
\* returns the open/read error of the file operations rather than not-found,
\* whatever else is registered.
C26_Independent_AnyRegistry ==
  [][ret.op = "idle" =>
       Independent(ret', store, store', shared_files, shared_files', AnyRegistry)]_vars

\* C26: the same, where the serve of a Public p that holds no file returns
\* the open/read error provided no other registered path has the id of p.
C26_Independent ==
  [][ret.op = "idle" =>
       Independent(ret', store, store', shared_files, shared_files', NoCollision)]_vars

\* the file of a shared Public path was moved away: the entry is still
\* there, the destination has none, and the serve returns the open error
C26_Witness ==
  /\ ret.op = "serve_shared_file" /\ ret.calls = 1
  /\ ServesAbsent(ret, PathAB, store) /\ NoCollision(PathAB)
  /\ store[PathBA].kind = "file" /\ store[PathBA].data # <<>>
  /\ ~ContainsKey(shared_files, PathBA)
  /\ ret.res.err = "Failed to open file" /\ ret.res.cause = "NotFound"

\* the files whose metadata fetch failed during the listing, at level 1 and
\* at level 2
FailedMetadata(r) ==
  {r.res.log[k].path : k \in {i \in DOMAIN r.res.log :
                                 r.res.log[i].action = "Metadata" /\ ~r.res.log[i].ok}}
FailedLevel1(r) == {q \in FailedMetadata(r) : q \in Level1(store, r)}
FailedLevel2(r) == {q \in FailedMetadata(r) : q \notin Level1(store, r)}

\* every call of the listing that failed is the metadata of a level-2 file
OnlyLevel2Failed(r) ==
  \A k \in DOMAIN r.res.log :
    ~r.res.log[k].ok =>
      (r.res.log[k].action = "Metadata" /\ r.res.log[k].path \in FailedLevel2(r))

\* C27: in list_directory(root) a failed metadata fetch on a level-1 file
\* aborts the call with an error and no entries; a failed metadata fetch on a
\* level-2 file does not: the call still succeeds, that file is left out, and
\* all other entries (its siblings, the later level-1 entries) are returned.
C27_MetadataFailureByDepth ==
  ret.op = "list_directory" =>
    LET E == ret.res.entries
        L1 == Level1(store, ret)
        L2 == Level2(store, ret) IN
    /\ FailedLevel1(ret) # {} =>
          /\ ~ret.res.ok
          /\ ret.res.err = "Failed to get metadata for"
          /\ E = <<>>
          /\ ret.res.log[Len(ret.res.log)].path \in FailedLevel1(ret)
    /\ FailedLevel2(ret) \subseteq L2
    /\ OnlyLevel2Failed(ret) =>
          /\ ret.res.ok
          /\ {E[i].path : i \in DOMAIN E} = (L1 \cup L2) \ FailedLevel2(ret)
          /\ Len(E) = Cardinality((L1 \cup L2) \ FailedLevel2(ret))
    /\ ret.res.ok =>
          /\ \A q \in FailedLevel2(ret) : EntriesOf(ret, q) = <<>>
          /\ \A q \in L1 : Len(EntriesOf(ret, q)) = 1
          /\ \A q \in FailedLevel2(ret) :
               \A sib \in ChildrenOf(store, ParentOf(q)) \ FailedLevel2(ret) :
                 Len(EntriesOf(ret, sib)) = 1

\* the metadata of /ab/a, read before its sibling /ab/b, failed: the listing
\* of the root returns /ab, /ab/b and /ba
C27_Witness ==
  /\ ret.op = "list_directory" /\ ret.res.ok /\ ret.path = <<"/">>
  /\ store[PathABA].kind = "file" /\ store[PathABB].kind = "file"
  /\ store[PathBA].kind = "file"
  /\ FailedLevel2(ret) = {PathABA} /\ OnlyLevel2Failed(ret)
  /\ Len(ret.res.entries) = 3
  /\ ret.res.entries[1].path = PathAB /\ ret.res.entries[1].size = 2
  /\ ret.res.entries[2].path = PathABB
  /\ ret.res.entries[3].path = PathBA

\* the positions of the level-2 entries emitted immediately after the entry
\* at position i for its directory
RunAfter(E, i) ==
  {j \in (i + 1)..Len(E) : \A k \in (i + 1)..j : ParentOf(E[k].path) = E[i].path}

\* the positions of the level-1 directory entries of a listing
Level1Dirs(r) ==
  {i \in DOMAIN r.res.entries :
     /\ r.res.entries[i].path \in Level1(store, r)
     /\ r.res.entries[i].is_directory}

Presented(r) == {g \in sigs : g.signature = r.signature}

\* what sign and verify hand the signer, and what sign returns
HandsSourceAndMessage(r) ==
  /\ r.op \in {"sign", "verify"} => r.blob = r.source \o r.message
  /\ (r.op = "sign" /\ r.res.ok) =>
       /\ r.res.bytes = NetSign(SignAddress, r.source \o r.message)
       /\ Grant(r.source, r.message, r.res.bytes) \in sigs

\* verify(m, sign(m)) by the same source is true
RoundTrip(r) ==
  (r.op = "verify" /\ r.res.ok) =>
    (Grant(r.source, r.message, r.signature) \in sigs => r.res.flag)

\* C29 as stated: sign and verify both hand the signer source ++ message,
\* verify(m, sign(m)) by the same source is true, and a signature obtained
\* by source A for m is accepted by verify for source B and m' only when
\* A = B and m = m'.
C29_OnlySameSourceAndMessage ==
  /\ HandsSourceAndMessage(sret)
  /\ RoundTrip(sret)
  /\ (sret.op = "verify" /\ sret.res.ok /\ sret.res.flag) =>
       \A g \in Presented(sret) :
         g.source = sret.source /\ g.message = sret.message

\* C29 amended: as stated, but the signature obtained by A for m is accepted
\* for B and m' exactly when the bytes A ++ m and B ++ m' are equal, which
\* does not need A = B; a signature never handed out is not accepted.
C29_SameConcatenation ==
  /\ HandsSourceAndMessage(sret)
  /\ RoundTrip(sret)
  /\ (sret.op = "verify" /\ sret.res.ok) =>
       /\ \A g \in Presented(sret) :
            sret.res.flag <=>
              g.source \o g.message = sret.source \o sret.message
       /\ sret.res.flag => Presented(sret) # {}

\* AddrA verifies the message it signed with the signature it was handed
C29_Witness ==
  /\ sret.op = "verify" /\ sret.res.ok /\ sret.res.flag
  /\ sret.source = AddrA /\ sret.message = <<"x">>
  /\ Grant(AddrA, <<"x">>, sret.signature) \in sigs

====
